---- MODULE Spec2Model ----
(***************************************************************************)
(* Model of the query-routing core of the chatbot backend:                 *)
(*   - AdvancedRateLimiter   backend/src/utils/advancedRateLimiter.js      *)
(*   - CacheManager          backend/src/utils/cache.js                    *)
(*   - DistributedCache      backend/src/utils/distributedCache.js         *)
(*   - ResponseMerger        backend/src/services/responseMerger.js        *)
(*   - live-data lookups     backend/src/services/realtime.js              *)
(*   - intent detection      backend/src/services/intentDetector.js,       *)
(*                           backend/ml/intentModel.js,                    *)
(*                           backend/ml/entityRecognition.js               *)
(*   - POST /chat            backend/src/routes/chat.js                    *)
(* Time is Date.now() in milliseconds.  Confidences are fixed-point        *)
(* numbers: the real value times Scale.                                    *)
(***************************************************************************)
EXTENDS Integers, Sequences, FiniteSets, TLC

VARIABLES
    now,         \* Date.now(), ms
    limits,      \* AdvancedRateLimiter.limits[per*].requests
    trackers,    \* AdvancedRateLimiter.trackers[by*]: identifier -> record
    blocklist,   \* AdvancedRateLimiter.blocklist: identifier -> unblock instant
    ret,         \* return value of the last rate-limiter operation
    scopeInUse,  \* the tracker scope the caller of this run applies
    gStart,      \* history: instant of the first checkLimit call of the current window
    gCalls,      \* history: checkLimit calls made in the current window
    gLimit,      \* history: limit in force when the current window started
    cmCache,     \* CacheManager.cache: key -> {value, expiryTime}
    cmRet,       \* the last CacheManager operation and its return value
    cmSetLog,    \* history: key -> the last set(key, value, ttl) and its instant
    cmExpect,    \* history: what the last set says of the key, taken at the last get
    dcLocal,     \* DistributedCache.localCache: key -> {value, expiresAt}
    dcRedis,     \* DistributedCache.redis: "connecting", "null" or "connected"
    dcStore,     \* contents of the shared (Redis) tier: key -> {value, expiry}
    dcRet,       \* the last DistributedCache operation: its return value, whether its shared-tier call threw, whether it threw to its caller
    dcSetLog,    \* history: key -> the last set(key, value, ttl) and its instant
    dcExpect,    \* history: what the last set says of the key, taken at the last get
    mIntent,     \* mergeResponses argument: intent
    mSources,    \* mergeResponses argument: sources
    mOut,        \* mergeResponses return value
    mPc,         \* "input" before the call, "merged" after it
    mKeys,       \* Object.keys(sources): the sources in the order they were assigned
    env,         \* the running server: module mode and process.env.NEWS_API_KEY
    lookups,     \* the live-data lookups in flight: slot -> position and result
    kindInUse,   \* the lookup the direct callers of this run repeat
    chat,        \* the POST /chat request being handled
    gChat,       \* history: chat requests received in the current hour
    cls,         \* the last direct call of detectIntent and what came of it
    inflight,    \* the requests in flight that apply the rate limiter, and their allowed calls
    pdfStore,    \* pdfProcessor.pdfStore: the processed documents, in insertion order
    pdfQueue,    \* queueProcessor.pdfQueue: "none", or the jobs waiting to be processed
    pdfRet,      \* the last private-document search and what came of it
    nbModel,     \* the NaiveBayesIntentClassifier: classPrior, classWordProb, vocabulary, isTrained
    nbRet        \* the last call of the classifier and what it returned

limiterVars == <<limits, trackers, blocklist, ret, scopeInUse, gStart, gCalls, gLimit>>
cmVars == <<cmCache, cmRet, cmSetLog, cmExpect>>
dcVars == <<dcLocal, dcRedis, dcStore, dcRet, dcSetLog, dcExpect>>
mVars == <<mIntent, mSources, mOut, mPc, mKeys>>
chatVars == <<env, lookups, kindInUse, chat, gChat, cls>>
reqVars == <<inflight>>
pdfVars == <<pdfStore, pdfQueue, pdfRet>>
nbVars == <<nbModel, nbRet>>

----------------------------------------------------------------------------
(* Shared values *)

\* JavaScript null / undefined / a missing Map entry, for integer-valued slots
Null == -1

\* Number.POSITIVE_INFINITY, returned as "remaining" for an untracked scope
Unlimited == -2

----------------------------------------------------------------------------
(* AdvancedRateLimiter *)

\* constructor: limits.perUser.requests, perSession.requests, perIP.requests
UserLimit == 100
SessionLimit == 50
IPLimit == 500

\* adjustLimitsBasedOnLoad: the reduced limits
SessionLimitHigh == 25
UserLimitHigh == 50

\* limits.per*.window: one hour for every scope
WindowMs == 60 * 60 * 1000

\* checkLimit: block duration passed to addToBlocklist, and the retry-after hint
BlockMs == 5 * 60 * 1000
RetryAfterSec == 300

\* adjustLimitsBasedOnLoad: thresholds of the load signal
CpuHigh == 80
MemHigh == 85

\* identifiers presented to the limiter
Ids == {"id1"}

\* the keys of this.trackers / this.limits
Scopes == {"Session", "User", "IP"}

\* the `type` arguments callers may pass to checkLimit
TypeNames == {"session", "user", "IP", "ip", "tenant"}

\* type.charAt(0).toUpperCase() + type.slice(1)
Capitalize(type) ==
    CASE type = "session" -> "Session"
      [] type = "user"    -> "User"
      [] type = "IP"      -> "IP"
      [] type = "ip"      -> "Ip"
      [] type = "tenant"  -> "Tenant"

\* a Map without an entry for the identifier
NoRecord == [requests |-> 0, firstRequest |-> Null, dynamic |-> 0]

\* bounds of the exploration
MaxRequests == 52
MaxTime == 3900000
MaxInflightTime == 5400000

\* the window test of checkLimit: a fresh record is started
CheckLimitFresh_ge(record, t) ==
    record = NoRecord \/ t - record.firstRequest >= WindowMs

CheckLimitFresh(record, t) ==
    record = NoRecord \/ t - record.firstRequest > WindowMs

CheckLimitRecord_live(record, t, limit) ==
    LET base == IF CheckLimitFresh(record, t)
                THEN [requests |-> 0, firstRequest |-> t, dynamic |-> limit]
                ELSE [record EXCEPT !.dynamic = limit]
    IN  [base EXCEPT !.requests = base.requests + 1]

CheckLimitRecord_lost(record, t, limit) ==
    LET base == IF CheckLimitFresh(record, t)
                THEN [requests |-> 0, firstRequest |-> t, dynamic |-> limit]
                ELSE record
    IN  [base EXCEPT !.requests = IF base.requests >= 2 THEN base.requests ELSE base.requests + 1]

\* the record checkLimit stores: fresh or kept, then requests++
CheckLimitRecord(record, t, limit) ==
    LET base == IF CheckLimitFresh(record, t)
                THEN [requests |-> 0, firstRequest |-> t, dynamic |-> limit]
                ELSE record
    IN  [base EXCEPT !.requests = base.requests + 1]

CheckLimitAllowed_lt(record) == record.requests < record.dynamic

\* const allowed = record.requests <= record.dynamic
CheckLimitAllowed(record) == record.requests <= record.dynamic

Max(a, b) == IF a >= b THEN a ELSE b
Min(a, b) == IF a <= b THEN a ELSE b

\* the object checkLimit returns
CheckLimitResult(record) ==
    [op |-> "checkLimit",
     allowed |-> CheckLimitAllowed(record),
     remaining |-> Max(0, record.dynamic - record.requests),
     retryAfter |-> IF ~CheckLimitAllowed(record) THEN RetryAfterSec ELSE Null]

UntrackedResult_denied ==
    [op |-> "checkLimit", allowed |-> FALSE, remaining |-> 0, retryAfter |-> RetryAfterSec]

\* checkLimit: !tracker || !limit
UntrackedResult ==
    [op |-> "checkLimit", allowed |-> TRUE, remaining |-> Unlimited, retryAfter |-> Null]

\* ret: a returned object r, with the tracker name the call computed
Returned(scope, r) ==
    [op |-> r.op, scope |-> scope, allowed |-> r.allowed, remaining |-> r.remaining,
     retryAfter |-> r.retryAfter]

AddToBlocklist_hour(bl, id, durationMs) == [bl EXCEPT ![id] = now + 60 * 60 * 1000]

AddToBlocklist_keep(bl, id, durationMs) ==
    IF bl[id] # Null THEN bl ELSE [bl EXCEPT ![id] = now + durationMs]

\* addToBlocklist(identifier, durationMs)
AddToBlocklist(bl, id, durationMs) == [bl EXCEPT ![id] = now + durationMs]

\* history of the claim's window: a call at t opens a window when none is open
\* or more than W has elapsed since the first call of the open one
HistoryStep(t, limit) ==
    IF gCalls = 0 \/ t - gStart > WindowMs
    THEN /\ gStart' = t
         /\ gCalls' = 1
         /\ gLimit' = limit
    ELSE /\ gCalls' = gCalls + 1
         /\ UNCHANGED <<gStart, gLimit>>

\* checkLimit(identifier, type): the call, whoever makes it
CheckLimitCall(id, type) ==
    LET scope == Capitalize(type) IN
    IF scope \notin Scopes
    THEN /\ ret' = Returned(scope, UntrackedResult)
         /\ UNCHANGED <<now, limits, trackers, blocklist, scopeInUse,
                        gStart, gCalls, gLimit, cmVars, dcVars, mVars, chatVars, pdfVars, nbVars>>
    ELSE LET record == CheckLimitRecord(trackers[scope][id], now, limits[scope]) IN
         /\ scopeInUse \in {"none", scope}
         /\ record.requests <= MaxRequests
         /\ trackers' = [trackers EXCEPT ![scope][id] = record]
         /\ blocklist' = IF CheckLimitAllowed(record)
                         THEN blocklist
                         ELSE AddToBlocklist(blocklist, id, BlockMs)
         /\ ret' = Returned(scope, CheckLimitResult(record))
         /\ HistoryStep(now, limits[scope])
         /\ scopeInUse' = scope
         /\ UNCHANGED <<now, limits, cmVars, dcVars, mVars, chatVars, pdfVars, nbVars>>

\* checkLimit(identifier, type) called directly
CheckLimit(id, type) ==
    /\ CheckLimitCall(id, type)
    /\ UNCHANGED reqVars

\* isBlocked(identifier)
IsBlockedValue(bl, id, t) == bl[id] # Null /\ ~(bl[id] < t)

IsBlocked_counting(id) ==
    /\ ret' = Returned("none", [op |-> "isBlocked",
                                allowed |-> ~IsBlockedValue(blocklist, id, now),
                                remaining |-> Null, retryAfter |-> Null])
    /\ blocklist' = IF blocklist[id] # Null /\ blocklist[id] < now
                    THEN [blocklist EXCEPT ![id] = Null]
                    ELSE blocklist
    /\ trackers' = [s \in Scopes |-> [i \in Ids |->
                       IF i = id /\ trackers[s][i] # NoRecord /\ IsBlockedValue(blocklist, id, now)
                       THEN [trackers[s][i] EXCEPT !.requests = @ + 1]
                       ELSE trackers[s][i]]]
    /\ UNCHANGED <<now, limits, scopeInUse, gStart, gCalls, gLimit, cmVars, dcVars, mVars, chatVars, reqVars, pdfVars, nbVars>>

IsBlocked(id) ==
    /\ ret' = Returned("none", [op |-> "isBlocked",
                                allowed |-> ~IsBlockedValue(blocklist, id, now),
                                remaining |-> Null, retryAfter |-> Null])
    /\ blocklist' = IF blocklist[id] # Null /\ blocklist[id] < now
                    THEN [blocklist EXCEPT ![id] = Null]
                    ELSE blocklist
    /\ UNCHANGED <<now, limits, trackers, scopeInUse, gStart, gCalls, gLimit, cmVars, dcVars, mVars, chatVars, reqVars, pdfVars, nbVars>>

AdjustedLimits_halving(lim, cpuUsage, memoryUsage) ==
    IF cpuUsage > CpuHigh \/ memoryUsage > MemHigh
    THEN [lim EXCEPT !["Session"] = lim["Session"] \div 2, !["User"] = lim["User"] \div 2]
    ELSE [lim EXCEPT !["Session"] = SessionLimit, !["User"] = UserLimit]

\* adjustLimitsBasedOnLoad(cpuUsage, memoryUsage)
AdjustedLimits(lim, cpuUsage, memoryUsage) ==
    IF cpuUsage > CpuHigh \/ memoryUsage > MemHigh
    THEN [lim EXCEPT !["Session"] = SessionLimitHigh, !["User"] = UserLimitHigh]
    ELSE [lim EXCEPT !["Session"] = SessionLimit, !["User"] = UserLimit]

AdjustLimitsBasedOnLoad(cpuUsage, memoryUsage) ==
    /\ limits' = AdjustedLimits(limits, cpuUsage, memoryUsage)
    /\ UNCHANGED <<now, trackers, blocklist, ret, scopeInUse, gStart, gCalls, gLimit,
                   cmVars, dcVars, mVars, chatVars, reqVars, pdfVars, nbVars>>

\* cleanup(): the periodic sweep
CleanupTrackers(tr, t) ==
    [tr EXCEPT !["Session"] =
        [id \in Ids |->
            IF tr["Session"][id] # NoRecord
               /\ t - tr["Session"][id].firstRequest > WindowMs
            THEN NoRecord ELSE tr["Session"][id]]]

CleanupBlocklist(bl, t) ==
    [id \in Ids |-> IF bl[id] # Null /\ bl[id] < t THEN Null ELSE bl[id]]

Cleanup ==
    /\ trackers' = CleanupTrackers(trackers, now)
    /\ blocklist' = CleanupBlocklist(blocklist, now)
    /\ ret' = Returned("none", [op |-> "cleanup", allowed |-> TRUE,
                                remaining |-> Null, retryAfter |-> Null])
    /\ UNCHANGED <<now, limits, scopeInUse, gStart, gCalls, gLimit, cmVars, dcVars, mVars, chatVars, reqVars, pdfVars, nbVars>>

\* the clock advances by d ms, up to the horizon
Advance(d, horizon) ==
    /\ now + d <= horizon
    /\ now' = now + d

\* clock steps of the limiter runs: the block duration and the window
LimiterSteps == {BlockMs, WindowMs}

LimiterTick ==
    /\ \E d \in LimiterSteps : Advance(d, MaxTime)
    /\ UNCHANGED <<limiterVars, cmVars, dcVars, mVars, chatVars, reqVars, pdfVars, nbVars>>

\* the requests in flight that apply the limiter to one session
Callers == {"r1", "r2"}

\* a request: "idle" (not received), "awaiting" (received, suspended before its
\* checkLimit call), "allowed" or "denied" (its call has returned)
NoCallers == [pcs |-> [c \in Callers |-> "idle"], allowedCalls |-> 0]

\* a request is received and suspends before it reaches the limiter
Arrive(c) ==
    /\ inflight.pcs[c] = "idle"
    /\ inflight' = [inflight EXCEPT !.pcs[c] = "awaiting"]
    /\ UNCHANGED <<now, limiterVars, cmVars, dcVars, mVars, chatVars, pdfVars, nbVars>>

\* the request resumes and calls checkLimit(sessionId, "session"), which runs to
\* completion before any other request's code; allowedCalls is the history of
\* the allowed calls of the current window
CallerCheck(c, id) ==
    LET newWindow == gCalls = 0 \/ now - gStart > WindowMs IN
    /\ inflight.pcs[c] = "awaiting"
    /\ CheckLimitCall(id, "session")
    /\ inflight' = [pcs |-> [inflight.pcs EXCEPT
                                ![c] = IF ret'.allowed THEN "allowed" ELSE "denied"],
                    allowedCalls |-> (IF newWindow THEN 0 ELSE inflight.allowedCalls)
                                     + (IF ret'.allowed THEN 1 ELSE 0)]

\* the response of the request is sent
Leave(c) ==
    /\ inflight.pcs[c] \in {"allowed", "denied"}
    /\ inflight' = [inflight EXCEPT !.pcs[c] = "idle"]
    /\ UNCHANGED <<now, limiterVars, cmVars, dcVars, mVars, chatVars, pdfVars, nbVars>>

LimiterInit ==
    /\ limits = [s \in Scopes |->
                    CASE s = "Session" -> SessionLimit
                      [] s = "User"    -> UserLimit
                      [] s = "IP"      -> IPLimit]
    /\ trackers = [s \in Scopes |-> [id \in Ids |-> NoRecord]]
    /\ blocklist = [id \in Ids |-> Null]
    /\ ret = Returned("none", [op |-> "none", allowed |-> TRUE,
                               remaining |-> Null, retryAfter |-> Null])
    /\ scopeInUse = "none"
    /\ gStart = 0
    /\ gCalls = 0
    /\ gLimit = 0
    /\ inflight = NoCallers

----------------------------------------------------------------------------
(* CacheManager (the cache of the live-data lookups) *)

\* cache keys built by the live-data lookups
CacheKeys == {"weather_paris", "weather_new york", "news_latest", "currency_USD"}

\* cached payloads: a data object and its own `cached` field
Payloads == {[data |-> "d1", cached |-> FALSE], [data |-> "d2", cached |-> FALSE]}

\* null (a miss)
NoValue == [data |-> "null", cached |-> FALSE]

\* a Map without an entry for the key
NoEntry == [value |-> NoValue, expiryTime |-> Null]

\* default TTL of CacheManager.set, seconds
CmDefaultTtl == 300

\* history: nothing was set for the key (or it was cleared since)
NoSet == [value |-> NoValue, at |-> Null, ttl |-> 0]

\* history: state of the key by its last set, at instant t
\*   "immediate": set at this very instant; "fresh": set earlier and the ttl has
\*   not passed; "past": set and the clock is past the ttl; "unset": never set,
\*   or deleted or cleared since
Expectation(log, t) ==
    IF log = NoSet THEN "unset"
    ELSE IF t > log.at + log.ttl * 1000 THEN "past"
    ELSE IF t = log.at THEN "immediate"
    ELSE "fresh"

\* set(key, value, ttlSeconds): expiryTime = Date.now() + ttlSeconds * 1000
CmSetEntry(value, ttlSeconds, t) == [value |-> value, expiryTime |-> t + ttlSeconds * 1000]

CmExpired_ge(entry, t) == t >= entry.expiryTime

\* get: if (Date.now() > cached.expiryTime)
CmExpired(entry, t) == t > entry.expiryTime

\* get(key): the value returned
CmGetValue(cache, key, t) ==
    IF cache[key] = NoEntry THEN NoValue
    ELSE IF CmExpired(cache[key], t) THEN NoValue
    ELSE cache[key].value

\* get(key): the store it leaves (an expired entry is deleted)
CmGetStore(cache, key, t) ==
    IF cache[key] # NoEntry /\ CmExpired(cache[key], t)
    THEN [cache EXCEPT ![key] = NoEntry]
    ELSE cache

CmSet(key, value, ttlSeconds) ==
    /\ cmCache' = [cmCache EXCEPT ![key] = CmSetEntry(value, ttlSeconds, now)]
    /\ cmRet' = [op |-> "set", key |-> key, value |-> NoValue]
    /\ cmSetLog' = [cmSetLog EXCEPT ![key] = [value |-> value, at |-> now, ttl |-> ttlSeconds]]
    /\ UNCHANGED <<now, cmExpect, limiterVars, dcVars, mVars, chatVars, reqVars, pdfVars, nbVars>>

CmGet(key) ==
    /\ cmCache' = CmGetStore(cmCache, key, now)
    /\ cmRet' = [op |-> "get", key |-> key, value |-> CmGetValue(cmCache, key, now)]
    /\ cmExpect' = Expectation(cmSetLog[key], now)
    /\ UNCHANGED <<now, cmSetLog, limiterVars, dcVars, mVars, chatVars, reqVars, pdfVars, nbVars>>

CmClear ==
    /\ cmCache' = [k \in CacheKeys |-> NoEntry]
    /\ cmRet' = [op |-> "clear", key |-> "", value |-> NoValue]
    /\ cmSetLog' = [k \in CacheKeys |-> NoSet]
    /\ UNCHANGED <<now, cmExpect, limiterVars, dcVars, mVars, chatVars, reqVars, pdfVars, nbVars>>

CmInit ==
    /\ cmCache = [k \in CacheKeys |-> NoEntry]
    /\ cmRet = [op |-> "none", key |-> "", value |-> NoValue]
    /\ cmSetLog = [k \in CacheKeys |-> NoSet]
    /\ cmExpect = "unset"

----------------------------------------------------------------------------
(* DistributedCache: local tier plus optional shared (Redis) tier *)

DcKeys == {"k1"}

\* default TTL of DistributedCache.set, seconds
DcDefaultTtl == 3600

\* JSON.parse(JSON.stringify(value)): a payload of plain data is unchanged,
\* a Date becomes its ISO string
JsonRoundTrip(value) ==
    IF value.data = "Date" THEN [value EXCEPT !.data = "DateString"] ELSE value

DcValues == Payloads \cup {[data |-> "Date", cached |-> FALSE]}

\* set: localCache entry, expiresAt = Date.now() + ttlSeconds * 1000
DcSetEntry(value, ttlSeconds, t) == [value |-> value, expiryTime |-> t + ttlSeconds * 1000]

\* the shared tier's native expiry: a key set with setEx lives for ttl seconds
RedisLive(entry, t) == entry # NoEntry /\ t < entry.expiryTime

DcLocalLive_ge(entry, t) == entry # NoEntry /\ entry.expiryTime >= t

\* get: localValue && localValue.expiresAt > Date.now()
DcLocalLive(entry, t) == entry # NoEntry /\ entry.expiryTime > t

\* get(key): the local-tier part; the local store is never changed by get
DcGetLocal(local, key, t) ==
    IF DcLocalLive(local[key], t) THEN local[key].value ELSE NoValue

DcGet_uncaught(key, redisOk) ==
    /\ dcRedis # "connected" => redisOk
    /\ dcExpect' = Expectation(dcSetLog[key], now)
    /\ dcRet' = [op |-> "get", threw |-> dcRedis = "connected" /\ ~redisOk, raised |-> dcRedis = "connected" /\ ~redisOk, key |-> key,
                 value |-> IF dcRedis = "connected" /\ ~redisOk THEN NoValue
                           ELSE IF dcRedis = "connected" /\ RedisLive(dcStore[key], now)
                           THEN JsonRoundTrip(dcStore[key].value)
                           ELSE DcGetLocal(dcLocal, key, now)]
    /\ UNCHANGED <<now, dcLocal, dcRedis, dcStore, dcSetLog, limiterVars, cmVars, mVars, chatVars, reqVars, pdfVars, nbVars>>

\* get(key); redisOk = FALSE: the shared-tier call throws, and the catch returns null
DcGet(key, redisOk) ==
    /\ dcRedis # "connected" => redisOk
    /\ dcExpect' = Expectation(dcSetLog[key], now)
    /\ dcRet' = [op |-> "get", threw |-> dcRedis = "connected" /\ ~redisOk, raised |-> FALSE, key |-> key,
                 value |-> IF dcRedis = "connected" /\ ~redisOk THEN NoValue
                           ELSE IF dcRedis = "connected" /\ RedisLive(dcStore[key], now)
                           THEN JsonRoundTrip(dcStore[key].value)
                           ELSE DcGetLocal(dcLocal, key, now)]
    /\ UNCHANGED <<now, dcLocal, dcRedis, dcStore, dcSetLog, limiterVars, cmVars, mVars, chatVars, reqVars, pdfVars, nbVars>>

\* set(key, value, ttlSeconds); a throwing setEx skips the local write
DcSet(key, value, ttlSeconds, redisOk) ==
    /\ dcRedis # "connected" => redisOk
    /\ dcStore' = IF dcRedis = "connected" /\ redisOk
                  THEN [dcStore EXCEPT ![key] = DcSetEntry(value, ttlSeconds, now)]
                  ELSE dcStore
    /\ dcLocal' = IF dcRedis = "connected" /\ ~redisOk
                  THEN dcLocal
                  ELSE [dcLocal EXCEPT ![key] = DcSetEntry(value, ttlSeconds, now)]
    /\ dcRet' = [op |-> "set", threw |-> dcRedis = "connected" /\ ~redisOk, raised |-> FALSE, key |-> key, value |-> NoValue]
    /\ dcSetLog' = [dcSetLog EXCEPT ![key] = [value |-> value, at |-> now, ttl |-> ttlSeconds]]
    /\ UNCHANGED <<now, dcRedis, dcExpect, limiterVars, cmVars, mVars, chatVars, reqVars, pdfVars, nbVars>>

\* delete(key); a throwing del skips the local delete
DcDelete(key, redisOk) ==
    /\ dcRedis # "connected" => redisOk
    /\ dcStore' = IF dcRedis = "connected" /\ redisOk
                  THEN [dcStore EXCEPT ![key] = NoEntry]
                  ELSE dcStore
    /\ dcLocal' = IF dcRedis = "connected" /\ ~redisOk
                  THEN dcLocal
                  ELSE [dcLocal EXCEPT ![key] = NoEntry]
    /\ dcRet' = [op |-> "delete", threw |-> dcRedis = "connected" /\ ~redisOk, raised |-> FALSE, key |-> key, value |-> NoValue]
    /\ dcSetLog' = [dcSetLog EXCEPT ![key] = NoSet]
    /\ UNCHANGED <<now, dcRedis, dcExpect, limiterVars, cmVars, mVars, chatVars, reqVars, pdfVars, nbVars>>

\* clear(); a throwing flushDb skips the local clear
DcClear(redisOk) ==
    /\ dcRedis # "connected" => redisOk
    /\ dcStore' = IF dcRedis = "connected" /\ redisOk
                  THEN [k \in DcKeys |-> NoEntry]
                  ELSE dcStore
    /\ dcLocal' = IF dcRedis = "connected" /\ ~redisOk
                  THEN dcLocal
                  ELSE [k \in DcKeys |-> NoEntry]
    /\ dcRet' = [op |-> "clear", threw |-> dcRedis = "connected" /\ ~redisOk, raised |-> FALSE, key |-> "", value |-> NoValue]
    /\ dcSetLog' = [k \in DcKeys |-> NoSet]
    /\ UNCHANGED <<now, dcRedis, dcExpect, limiterVars, cmVars, mVars, chatVars, reqVars, pdfVars, nbVars>>

\* initRedis() settles: connected (ok), or this.redis stays null (the connection
\* failed, or REDIS_URL is unset and the constructor never started it)
DcInitRedis(ok) ==
    /\ dcRedis = "connecting"
    /\ dcRedis' = IF ok THEN "connected" ELSE "null"
    /\ UNCHANGED <<now, dcLocal, dcStore, dcRet, dcSetLog, dcExpect, limiterVars, cmVars, mVars, chatVars, reqVars, pdfVars, nbVars>>

\* constructor(useRedis): this.redis = null, the connection not yet settled
DcInit ==
    /\ dcLocal = [k \in DcKeys |-> NoEntry]
    /\ dcRedis = "connecting"
    /\ dcStore = [k \in DcKeys |-> NoEntry]
    /\ dcRet = [op |-> "none", threw |-> FALSE, raised |-> FALSE, key |-> "", value |-> NoValue]
    /\ dcSetLog = [k \in DcKeys |-> NoSet]
    /\ dcExpect = "unset"

----------------------------------------------------------------------------
(* ResponseMerger.mergeResponses *)

\* fixed-point scale of confidences: 1.0 is Scale
Scale == 3000

\* the confidence defaults of mergeResponses: 0.8 (primary), 0.6 (supplementary)
DefaultPrimaryConfidence == 2400
DefaultSupplementaryConfidence == 1800

\* length of the content preview of a supplementary source, and of its "..." suffix
PreviewLen == 100
EllipsisLen == 3

SourceNames == {"realtime", "rag", "pdf", "llm"}

\* content: the source it came from and its length; "" has length 0
NoContent == [from |-> "none", len |-> 0]

\* sources[name] === undefined
AbsentSource == [present |-> FALSE, success |-> FALSE, confidence |-> Null, content |-> NoContent]

\* { success: false }
FailedSource == [present |-> TRUE, success |-> FALSE, confidence |-> Null, content |-> NoContent]

PriorityOrder_pdfFirst(intent) ==
    IF intent = "realtime" THEN <<"pdf", "rag", "realtime", "llm">>
    ELSE IF intent = "rag" \/ intent = "pdf" THEN <<"pdf", "rag", "realtime", "llm">>
    ELSE <<"llm", "rag", "pdf", "realtime">>

\* priority order based on intent
PriorityOrder(intent) ==
    IF intent = "realtime" THEN <<"realtime", "rag", "pdf", "llm">>
    ELSE IF intent = "rag" \/ intent = "pdf" THEN <<"pdf", "rag", "realtime", "llm">>
    ELSE <<"llm", "rag", "pdf", "realtime">>

\* sources[source] && sources[source].success
Succeeded(sources, source) == sources[source].present /\ sources[source].success

\* value || dflt, for a number: undefined and 0 are falsy
OrDefault(value, dflt) == IF value = Null \/ value = 0 THEN dflt ELSE value

PrimarySource_none(sources, order) == "none"

\* the first loop: the first successful source of the order, or "none" (null)
PrimarySource(sources, order) ==
    IF \E i \in 1..Len(order) : Succeeded(sources, order[i])
    THEN order[CHOOSE i \in 1..Len(order) :
                  /\ Succeeded(sources, order[i])
                  /\ \A j \in 1..(i - 1) : ~Succeeded(sources, order[j])]
    ELSE "none"

MergedConfidence_default(sources, primary) ==
    IF primary = "none" THEN DefaultPrimaryConfidence
    ELSE OrDefault(sources[primary].confidence, DefaultPrimaryConfidence)

\* highestConfidence / merged.confidenceScore
MergedConfidence(sources, primary) ==
    IF primary = "none" THEN 0
    ELSE OrDefault(sources[primary].confidence, DefaultPrimaryConfidence)

\* content.substring(0, 100) + "..."
Preview(content) == [from |-> content.from, len |-> Min(content.len, PreviewLen) + EllipsisLen]

\* the sourceDetails entry of the primary source
PrimaryDetail(sources, primary) ==
    [source |-> primary, confidence |-> MergedConfidence(sources, primary),
     content |-> NoContent]

\* the sourceDetails entry of a supplementary source
SupplementaryDetail(sources, source) ==
    [source |-> source,
     confidence |-> OrDefault(sources[source].confidence, DefaultSupplementaryConfidence),
     content |-> Preview(sources[source].content)]

RECURSIVE Supplementary_all(_, _, _, _)
Supplementary_all(sources, order, primary, i) ==
    IF i > Len(order) THEN <<>>
    ELSE IF Succeeded(sources, order[i])
    THEN <<order[i]>> \o Supplementary_all(sources, order, primary, i + 1)
    ELSE Supplementary_all(sources, order, primary, i + 1)

\* the second loop: the other successful sources, in priority order
RECURSIVE Supplementary(_, _, _, _)
Supplementary(sources, order, primary, i) ==
    IF i > Len(order) THEN <<>>
    ELSE IF order[i] # primary /\ Succeeded(sources, order[i])
    THEN <<order[i]>> \o Supplementary(sources, order, primary, i + 1)
    ELSE Supplementary(sources, order, primary, i + 1)

\* the two loops of mergeResponses, run over `order`
MergeInOrder(sources, order) ==
    LET primary == PrimarySource(sources, order)
        others == Supplementary(sources, order, primary, 1)
    IN  [primaryResponse |-> IF primary = "none" THEN NoContent ELSE sources[primary].content,
         confidenceScore |-> MergedConfidence(sources, primary),
         usedSources |-> (IF primary = "none" THEN <<>> ELSE <<primary>>) \o others,
         sourceDetails |->
            (IF primary = "none" THEN <<>> ELSE <<PrimaryDetail(sources, primary)>>)
            \o [i \in 1..Len(others) |-> SupplementaryDetail(sources, others[i])]]

\* mergeResponses(sources, query, intent): both loops run over priorityOrder
MergeResponses(sources, intent) == MergeInOrder(sources, PriorityOrder(intent))

\* the object mergeResponses starts from
EmptyMerged ==
    [primaryResponse |-> NoContent, confidenceScore |-> 0,
     usedSources |-> <<>>, sourceDetails |-> <<>>]

\* arguments of the merger runs
MergerIntents == {"realtime", "rag", "pdf", "general"}
MergerConfidences == {Null, 0, 2700, 2850}
MergerLengths == {0, 150}

SuccessSources(name) ==
    {[present |-> TRUE, success |-> TRUE, confidence |-> c,
      content |-> [from |-> name, len |-> n]] : c \in MergerConfidences, n \in MergerLengths}

MergerInputs ==
    {src \in [SourceNames -> {AbsentSource, FailedSource}
                              \cup UNION {SuccessSources(n) : n \in SourceNames}] :
        /\ \A n \in SourceNames : src[n].success => src[n].content.from = n
        /\ src["llm"] # FailedSource
        /\ src["llm"].success => src["llm"].content.len > 0 /\ src["llm"].confidence = Null}

\* the orders in which the keys of a sources object can have been assigned
KeyOrders(sources) ==
    LET present == {n \in SourceNames : sources[n].present}
    IN  {keys \in [1..Cardinality(present) -> present] :
            \A i, j \in 1..Cardinality(present) : keys[i] = keys[j] => i = j}

\* a caller builds the arguments, its lookups having settled in some order
MergerCall ==
    /\ mPc = "input"
    /\ mIntent' \in MergerIntents
    /\ mSources' \in MergerInputs
    /\ mKeys' \in KeyOrders(mSources')
    /\ mPc' = "call"
    /\ UNCHANGED <<now, mOut, limiterVars, cmVars, dcVars, chatVars, reqVars, pdfVars, nbVars>>

Merge_keyOrder ==
    /\ mPc = "call"
    /\ mOut' = MergeInOrder(mSources, mKeys)
    /\ mPc' = "merged"
    /\ UNCHANGED <<now, mIntent, mSources, mKeys, limiterVars, cmVars, dcVars, chatVars, reqVars, pdfVars, nbVars>>

Merge ==
    /\ mPc = "call"
    /\ mOut' = MergeResponses(mSources, mIntent)
    /\ mPc' = "merged"
    /\ UNCHANGED <<now, mIntent, mSources, mKeys, limiterVars, cmVars, dcVars, chatVars, reqVars, pdfVars, nbVars>>

MergerInit ==
    /\ mKeys = <<>>
    /\ mPc = "input"
    /\ mIntent = "general"
    /\ mSources = [n \in SourceNames |-> AbsentSource]
    /\ mOut = EmptyMerged

----------------------------------------------------------------------------
(* NaiveBayesIntentClassifier: extractFeatures, train, predict *)

\* a text is a sequence of pieces: a run of word characters (\w), a blank (\s)
\* or a punctuation mark (neither \w nor \s)
Blank == " "
Punct == "!"

\* the pieces of the texts classified, and of the training examples
TextPieces == {"weather", "Hello", "constructor", Blank, Punct}

\* String.prototype.toLowerCase, on a piece
ToLowerCase(piece) == IF piece = "Hello" THEN "hello" ELSE piece

\* text.toLowerCase().replace(/[^\w\s]/g, "")
Cleaned(text) ==
    SelectSeq([i \in 1..Len(text) |-> ToLowerCase(text[i])], LAMBDA p : p # Punct)

\* cleaned.split(/\s+/): the words between runs of blanks, an empty word before
\* a leading run and after a trailing one; inBlank: the previous piece was a blank
RECURSIVE Split(_, _, _)
Split(cleaned, word, inBlank) ==
    IF cleaned = <<>> THEN <<word>>
    ELSE IF Head(cleaned) = Blank
         THEN IF inBlank
              THEN Split(Tail(cleaned), word, TRUE)
              ELSE <<word>> \o Split(Tail(cleaned), <<>>, TRUE)
         ELSE Split(Tail(cleaned), Append(word, Head(cleaned)), FALSE)

\* `${words[i]}_${words[i + 1]}`
Bigram(a, b) == a \o <<"_">> \o b

\* the unigrams followed by the bigrams of consecutive words
WithBigrams(words) ==
    IF Len(words) < 2 THEN words
    ELSE words \o [i \in 1..(Len(words) - 1) |-> Bigram(words[i], words[i + 1])]

ExtractFeatures_unfiltered(text) == WithBigrams(Split(Cleaned(text), <<>>, FALSE))

\* extractFeatures(text)
ExtractFeatures(text) ==
    WithBigrams(SelectSeq(Split(Cleaned(text), <<>>, FALSE), LAMBDA w : Len(w) > 0))

\* Object.keys(classExamples): the labels in the order of their first example
RECURSIVE LabelOrder(_, _)
LabelOrder(data, seen) ==
    IF data = <<>> THEN seen
    ELSE LabelOrder(Tail(data),
                    IF \E i \in 1..Len(seen) : seen[i] = Head(data).intent
                    THEN seen ELSE Append(seen, Head(data).intent))

\* classExamples[className].join(" ")
RECURSIVE JoinTexts(_, _)
JoinTexts(data, className) ==
    IF data = <<>> THEN <<>>
    ELSE LET rest == JoinTexts(Tail(data), className) IN
         IF Head(data).intent # className THEN rest
         ELSE IF \E i \in 1..Len(Tail(data)) : Tail(data)[i].intent = className
              THEN Head(data).text \o <<Blank>> \o rest
              ELSE Head(data).text

FeatureFreq(features, feature) ==
    Cardinality({i \in 1..Len(features) : features[i] = feature})

\* train, second loop: one class after the other; this.vocabulary holds the
\* features of the classes processed so far when the probabilities of a class
\* are computed
RECURSIVE TrainClasses(_, _, _)
TrainClasses(data, classNames, acc) ==
    IF classNames = <<>> THEN acc
    ELSE LET className == Head(classNames)
             features == ExtractFeatures(JoinTexts(data, className))
             seen == {features[i] : i \in 1..Len(features)}
             vocabulary == acc.vocabulary \cup seen
             probs == [feature \in seen |->
                          [nan |-> FALSE,
                           num |-> FeatureFreq(features, feature) + 1,
                           den |-> Len(features) + Cardinality(vocabulary)]]
         IN  TrainClasses(data, Tail(classNames),
                          [vocabulary |-> vocabulary,
                           classWordProb |-> acc.classWordProb @@ (className :> probs)])

\* the classifier after its constructor
Untrained ==
    [classNames |-> <<>>, classPrior |-> <<>>, classWordProb |-> <<>>,
     vocabulary |-> {}, isTrained |-> FALSE]

\* train(trainingData): the classifier it leaves
Train(data) ==
    LET classNames == LabelOrder(data, <<>>)
        acc == TrainClasses(data, classNames, [vocabulary |-> {}, classWordProb |-> <<>>])
    IN  [classNames |-> classNames,
         classPrior |-> [c \in {classNames[i] : i \in 1..Len(classNames)} |->
                            [nan |-> FALSE,
                             num |-> Cardinality({i \in 1..Len(data) : data[i].intent = c}),
                             den |-> Len(data)]],
         classWordProb |-> acc.classWordProb,
         vocabulary |-> acc.vocabulary,
         isTrained |-> TRUE]

\* the property names every object inherits from Object.prototype that a
\* lower-cased word can spell
InheritedKeys == {<<"constructor">>}

\* a class score is a sum of logarithms: it is kept as the product under the
\* logarithm, a fraction num / den, or as NaN
NotANumberScore == [nan |-> TRUE, num |-> 0, den |-> 1]

\* Number.NEGATIVE_INFINITY: the logarithm of 0
NegativeInfinity == [nan |-> FALSE, num |-> 0, den |-> 1]

\* this.classWordProb[className][feature] || 1 / (1 + this.vocabulary.size): the
\* lookup of an inherited key finds a function, whose logarithm is NaN
WordProb(model, className, feature) ==
    IF feature \in DOMAIN model.classWordProb[className]
    THEN model.classWordProb[className][feature]
    ELSE IF feature \in InheritedKeys THEN NotANumberScore
    ELSE [nan |-> FALSE, num |-> 1, den |-> 1 + Cardinality(model.vocabulary)]

\* scores[className] += Math.log(prob)
PlusLog(score, prob) ==
    IF score.nan \/ prob.nan THEN NotANumberScore
    ELSE [nan |-> FALSE, num |-> score.num * prob.num, den |-> score.den * prob.den]

RECURSIVE ClassScore(_, _, _, _)
ClassScore(model, className, features, score) ==
    IF features = <<>> THEN score
    ELSE ClassScore(model, className, Tail(features),
                    PlusLog(score, WordProb(model, className, Head(features))))

\* a > b and a === b on scores: false as soon as one of them is NaN
Greater(a, b) == ~a.nan /\ ~b.nan /\ a.num * b.den > b.num * a.den
SameScore(a, b) == ~a.nan /\ ~b.nan /\ a.num * b.den = b.num * a.den

\* predict: the loop over Object.entries(scores) that keeps the first class
\* with the highest score
RECURSIVE BestClass(_, _, _)
BestClass(scores, classNames, best) ==
    IF classNames = <<>> THEN best
    ELSE BestClass(scores, Tail(classNames),
                   IF Greater(scores[Head(classNames)], best.score)
                   THEN [className |-> Head(classNames), score |-> scores[Head(classNames)]]
                   ELSE best)

\* a not-a-number confidence
NotANumber == -3

\* predict: the confidence.  Math.max and Math.min are NaN when a score is, and
\* then so is the quotient; (bestScore - minScore) / (maxScore - minScore) is 1
\* at the maximum, 0 at the minimum and strictly between otherwise (the model
\* keeps one value, a quarter, for every score strictly between)
Confidence(scores, bestScore) ==
    LET all == {scores[c] : c \in DOMAIN scores}
        isMax(s) == \A o \in all : ~Greater(o, s)
        isMin(s) == \A o \in all : ~Greater(s, o)
    IN  IF \E s \in all : s.nan THEN NotANumber
        ELSE IF \A s, o \in all : SameScore(s, o) THEN Scale \div 2
        ELSE IF isMax(bestScore) THEN Scale
        ELSE IF isMin(bestScore) THEN 0
        ELSE Scale \div 4

\* predict(text) of a trained classifier: { intent, confidence, scores }
NbPredicted(model, text) ==
    LET features == ExtractFeatures(text)
        scores == [c \in DOMAIN model.classPrior |->
                      ClassScore(model, c, features, model.classPrior[c])]
        best == BestClass(scores, model.classNames,
                          [className |-> "null", score |-> NegativeInfinity])
    IN  [intent |-> best.className, confidence |-> Confidence(scores, best.score),
         scores |-> scores]

\* what the last call returned; nothing before the first call
NoNbRet ==
    [op |-> "none", text |-> <<>>, data |-> <<>>, features |-> <<>>, scores |-> <<>>,
     intent |-> "null", confidence |-> Null, threw |-> FALSE]

\* mlClassifier.extractFeatures(text), once the caller has taken the last result
NbExtractFeatures(text) ==
    /\ nbRet.op \in {"none", "train"}
    /\ nbRet' = [NoNbRet EXCEPT !.op = "extractFeatures", !.text = text,
                                !.features = ExtractFeatures(text)]
    /\ UNCHANGED <<now, nbModel, limiterVars, cmVars, dcVars, mVars, chatVars, reqVars, pdfVars>>

\* mlClassifier.train(trainingData), called once when the module is loaded
NbTrain(data) ==
    /\ ~nbModel.isTrained
    /\ nbModel' = Train(data)
    /\ nbRet' = [NoNbRet EXCEPT !.op = "train", !.data = data]
    /\ UNCHANGED <<now, limiterVars, cmVars, dcVars, mVars, chatVars, reqVars, pdfVars>>

\* mlClassifier.predict(text): throws "Model not trained" before train
NbPredict(text) ==
    /\ nbRet.op \in {"none", "train"}
    /\ nbRet' = IF ~nbModel.isTrained
                THEN [NoNbRet EXCEPT !.op = "predict", !.text = text, !.threw = TRUE]
                ELSE LET p == NbPredicted(nbModel, text) IN
                     [NoNbRet EXCEPT !.op = "predict", !.text = text,
                                     !.features = ExtractFeatures(text),
                                     !.scores = p.scores, !.intent = p.intent,
                                     !.confidence = p.confidence]
    /\ UNCHANGED <<now, nbModel, limiterVars, cmVars, dcVars, mVars, chatVars, reqVars, pdfVars>>

\* the caller takes the result of its call
NbTaken ==
    /\ nbRet.op \in {"extractFeatures", "predict"}
    /\ nbRet' = NoNbRet
    /\ UNCHANGED <<now, nbModel, limiterVars, cmVars, dcVars, mVars, chatVars, reqVars, pdfVars>>

NbInit ==
    /\ nbModel = Untrained
    /\ nbRet = NoNbRet

----------------------------------------------------------------------------
(* Messages: a chat message by what the classifier and the lookups read of it *)

\* extractEntities: number of entities per list (organizations and topics are
\* never filled)
NoEntities == [locations |-> 0, dates |-> 0, currencies |-> 0, numbers |-> 0]

EntityProfiles ==
    {NoEntities,
     [locations |-> 1, dates |-> 0, currencies |-> 0, numbers |-> 0],
     [locations |-> 1, dates |-> 1, currencies |-> 1, numbers |-> 6]}

\* keywords of a text: rt is the first INTENT_PATTERNS entry with a keyword in
\* the text ("none": no entry), rtCount the keyword matches over all entries,
\* ragCount and generalCount the matches of ragKeywords and generalKeywords,
\* city the capture of extractCity ("none": no match)
KeywordProfiles ==
    {[rt |-> "none",     rtCount |-> 0, ragCount |-> 0, generalCount |-> 1, city |-> "none"],
     [rt |-> "none",     rtCount |-> 0, ragCount |-> 2, generalCount |-> 0, city |-> "none"],
     [rt |-> "none",     rtCount |-> 0, ragCount |-> 1, generalCount |-> 1, city |-> "none"],
     [rt |-> "none",     rtCount |-> 0, ragCount |-> 0, generalCount |-> 0, city |-> "Paris"],
     [rt |-> "weather",  rtCount |-> 1, ragCount |-> 0, generalCount |-> 0, city |-> "Paris"],
     [rt |-> "weather",  rtCount |-> 1, ragCount |-> 1, generalCount |-> 0, city |-> "Paris"],
     [rt |-> "weather",  rtCount |-> 3, ragCount |-> 0, generalCount |-> 0, city |-> "none"],
     [rt |-> "weather",  rtCount |-> 1, ragCount |-> 2, generalCount |-> 0, city |-> "Paris"],
     [rt |-> "news",     rtCount |-> 2, ragCount |-> 0, generalCount |-> 0, city |-> "none"],
     [rt |-> "currency", rtCount |-> 2, ragCount |-> 0, generalCount |-> 1, city |-> "none"],
     [rt |-> "time",     rtCount |-> 1, ragCount |-> 0, generalCount |-> 0, city |-> "none"]}

Intents == {"realtime", "rag", "general"}

\* what the trained classifier makes of a text: its best class, and whether all
\* class scores are equal
MlOutcomes ==
    {[mlIntent |-> i, mlTie |-> FALSE] : i \in Intents}
    \cup {[mlIntent |-> "realtime", mlTie |-> TRUE]}

\* a text with a word that names an inherited property ("constructor"): every
\* class score is NaN and the best class stays null
MlNotANumber == [mlIntent |-> "null", mlTie |-> FALSE]

\* req.body.message = ""
EmptyMessage ==
    [kind |-> "empty", rt |-> "none", rtCount |-> 0, ragCount |-> 0, generalCount |-> 0,
     city |-> "none", mlIntent |-> "realtime", mlTie |-> FALSE, entities |-> NoEntities]

\* req.body.message missing or not a string
NotAString == [EmptyMessage EXCEPT !.kind = "notString"]

Text(p, ml, e) ==
    [kind |-> "text", rt |-> p.rt, rtCount |-> p.rtCount, ragCount |-> p.ragCount,
     generalCount |-> p.generalCount, city |-> p.city,
     mlIntent |-> ml.mlIntent, mlTie |-> ml.mlTie, entities |-> e]

\* "What's the weather in Paris?": the keyword "weather" and nothing else, no
\* entity (no capitalised word is followed by a space), extractCity finds Paris,
\* and predict gives realtime with confidence 1 on the shipped training data
WeatherInParis ==
    Text([rt |-> "weather", rtCount |-> 1, ragCount |-> 0, generalCount |-> 0, city |-> "Paris"],
         [mlIntent |-> "realtime", mlTie |-> FALSE], NoEntities)

Messages ==
    {EmptyMessage, NotAString}
    \cup {Text(p, ml, e) : p \in KeywordProfiles, ml \in MlOutcomes \cup {MlNotANumber},
                            e \in EntityProfiles}

----------------------------------------------------------------------------
(* Intent detection *)

\* scoreConfidenceByEntities: 0.5, +0.05 per entity up to 0.3, +0.05 for each of
\* locations, dates, currencies, at most 1.0
ScoreConfidenceByEntities(e) ==
    LET entityCount == e.locations + e.dates + e.currencies + e.numbers
        boost(n) == IF n > 0 THEN Scale \div 20 ELSE 0
    IN  Min(Scale \div 2 + Min(entityCount * (Scale \div 20), (3 * Scale) \div 10)
            + boost(e.locations) + boost(e.dates) + boost(e.currencies),
            Scale)

\* detectIntentRuleBased: message._detectedType = pattern.type is an assignment
\* to a property of a string primitive; module code evaluated in strict mode
\* throws a TypeError there, code evaluated in sloppy mode ignores it
RuleBasedThrows(msg, strict) == strict /\ msg.rtCount > 0

\* detectIntentRuleBased: the result when it returns
DetectIntentRuleBased(msg) ==
    LET maxScore == Max(msg.rtCount, Max(msg.ragCount, msg.generalCount))
        dominantIntent ==
            IF msg.rtCount = maxScore /\ msg.rtCount > 0 THEN "realtime"
            ELSE IF msg.ragCount = maxScore /\ msg.ragCount > 0 THEN "rag"
            ELSE "general"
    IN  [intent |-> dominantIntent,
         type |-> IF dominantIntent = "realtime" THEN msg.rt ELSE "undefined",
         confidence |-> IF maxScore > 0 THEN Min((maxScore * Scale) \div 3, Scale) ELSE 0,
         method |-> "rule-based", error |-> FALSE, mlConfidence |-> Null]

\* NaiveBayesIntentClassifier.predict: confidence is NaN when the class scores
\* are, 0.5 when all class scores are equal, and
\* (bestScore - minScore) / (maxScore - minScore) = 1 otherwise
Predict(msg) ==
    [intent |-> msg.mlIntent,
     confidence |-> IF msg.mlIntent = "null" THEN NotANumber
                    ELSE IF msg.mlTie THEN Scale \div 2 ELSE Scale]

\* a < b on confidences: false when a is NaN
LessThan(a, b) == a # NotANumber /\ a < b

\* predictIntentML: below 0.6 the rule-based result is used, with the ML
\* confidence as mlConfidence; the ML result carries no type
PredictIntentML(msg, ruleBased) ==
    LET mlResult == Predict(msg)
    IN  IF LessThan(mlResult.confidence, (6 * Scale) \div 10)
        THEN [ruleBased EXCEPT !.method = "rule-based", !.mlConfidence = mlResult.confidence]
        ELSE [intent |-> mlResult.intent, type |-> "undefined",
              confidence |-> mlResult.confidence, method |-> "ml", error |-> FALSE,
              mlConfidence |-> Null]

\* predictIntentML when mlClassifier.predict throws: the catch returns the
\* rule-based result with error: "ML prediction failed"
PredictIntentMLCaught(ruleBased) == [ruleBased EXCEPT !.method = "rule-based", !.error = TRUE]

\* result.confidence * 0.7 + entityScore * 0.3: NaN when the confidence is
Fuse(result, entityScore) ==
    [result EXCEPT !.confidence = IF result.confidence = NotANumber THEN NotANumber
                                  ELSE (result.confidence * 7 + entityScore * 3) \div 10]

DetectIntent_unweighted(msg) ==
    LET result == PredictIntentML(msg, DetectIntentRuleBased(msg))
    IN  [result EXCEPT !.confidence =
            result.confidence + ScoreConfidenceByEntities(msg.entities)]

\* detectIntent, when detectIntentRuleBased returns
DetectIntent(msg) ==
    Fuse(PredictIntentML(msg, DetectIntentRuleBased(msg)),
         ScoreConfidenceByEntities(msg.entities))

\* detectIntent, when detectIntentRuleBased returns and predict throws
DetectIntentCaught(msg) ==
    Fuse(PredictIntentMLCaught(DetectIntentRuleBased(msg)),
         ScoreConfidenceByEntities(msg.entities))

\* no result: detectIntent has not been called, or it threw
NoResult ==
    [intent |-> "none", type |-> "undefined", confidence |-> 0, method |-> "none",
     error |-> FALSE, mlConfidence |-> Null]

NoCall ==
    [done |-> FALSE, msg |-> EmptyMessage, raised |-> FALSE, mlThrew |-> FALSE,
     rule |-> 0, ml |-> 0, entity |-> 0, ruleBased |-> NoResult, predicted |-> NoResult,
     result |-> NoResult]

\* detectIntent(message) called on a string; rule, ml and entity are the three
\* confidences it works with.  mlThrows: mlClassifier.predict throws (the
\* shipped classifier is trained when its module loads, so only a fault does it)
Classify(msg, mlThrows) ==
    LET raised == RuleBasedThrows(msg, env.strict) IN
    /\ env.booted
    /\ msg.kind \in {"empty", "text"}
    /\ cls' = [done |-> TRUE, msg |-> msg, raised |-> raised, mlThrew |-> mlThrows,
               rule |-> DetectIntentRuleBased(msg).confidence,
               ml |-> Predict(msg).confidence,
               entity |-> ScoreConfidenceByEntities(msg.entities),
               ruleBased |-> IF raised THEN NoResult ELSE DetectIntentRuleBased(msg),
               predicted |-> IF raised THEN NoResult
                             ELSE IF mlThrows
                                  THEN PredictIntentMLCaught(DetectIntentRuleBased(msg))
                                  ELSE PredictIntentML(msg, DetectIntentRuleBased(msg)),
               result |-> IF raised THEN NoResult
                          ELSE IF mlThrows THEN DetectIntentCaught(msg)
                          ELSE DetectIntent(msg)]
    /\ UNCHANGED <<now, env, lookups, kindInUse, chat, gChat, limiterVars, cmVars, dcVars, mVars, reqVars, pdfVars, nbVars>>

----------------------------------------------------------------------------
(* Live-data lookups: fetchLiveData, fetchWeather, fetchNews, fetchExchangeRates *)

\* the lookups that go through the cache
LookupKinds == {"weather", "news", "currency"}

\* the type argument of fetchLiveData
LiveTypes == LookupKinds \cup {"time", "undefined"}

\* extractCity: the capture, or "New York"
ExtractCity(msg) == IF msg.city = "none" THEN "New York" ELSE msg.city

\* `weather_${city.toLowerCase()}`, "news_latest", `currency_${baseCurrency}`
LookupKey(kind, city) ==
    CASE kind = "weather" /\ city = "Paris" -> "weather_paris"
      [] kind = "weather" /\ city # "Paris" -> "weather_new york"
      [] kind = "news" -> "news_latest"
      [] kind = "currency" -> "currency_USD"

\* the ttl each lookup passes to cacheManager.set, seconds
LookupTtl_default(kind) == CmDefaultTtl

LookupTtl(kind) ==
    CASE kind = "weather" -> 1800
      [] kind = "news" -> 3600
      [] kind = "currency" -> 21600

\* { error: "..." }; it has no `cached` field, which reads as a falsy undefined
ErrorObject == [data |-> "error", cached |-> FALSE]

\* getCurrentTime(): it has no `cached` field either
TimeObject == [data |-> "time", cached |-> FALSE]

\* ratesData built from a response body that has neither base nor rates:
\* { base: undefined, rates: undefined, timestamp, cached: false }
UnusableRates == [data |-> "undefined", cached |-> FALSE]

\* JSON.stringify(liveData).length
JsonLength(obj) ==
    CASE obj.data = "error" -> 30
      [] obj.data = "time" -> 90
      [] obj.data = "undefined" -> 53
      [] OTHER -> 150

LookupSlots == {"c1", "c2"}

\* no call in the slot; sinceFetch is history: at the cache check, the time
\* since the last successful upstream fetch of the key (Null: there was none)
IdleLookup ==
    [pc |-> "idle", kind |-> "none", key |-> "", hit |-> FALSE, upstream |-> FALSE,
     result |-> NoValue, sinceFetch |-> Null]

\* fetchLiveData(message, type) up to its first upstream call: the cache check,
\* and the return when it needs no upstream call
FetchLiveDataStart(slot, type, city) ==
    IF type \in LookupKinds
    THEN LET key == LookupKey(type, city)
             value == CmGetValue(cmCache, key, now)
             base == [IdleLookup EXCEPT !.kind = type, !.key = key,
                         !.sinceFetch = IF cmSetLog[key] = NoSet THEN Null
                                        ELSE now - cmSetLog[key].at]
         IN  /\ cmCache' = CmGetStore(cmCache, key, now)
             /\ lookups' = [lookups EXCEPT ![slot] =
                   IF value # NoValue
                   THEN [base EXCEPT !.pc = "done", !.hit = TRUE, !.result = value]
                   ELSE IF type = "news" /\ ~env.newsApiKey
                   THEN [base EXCEPT !.pc = "done", !.result = ErrorObject]
                   ELSE [base EXCEPT !.pc = "upstream", !.upstream = TRUE]]
    ELSE /\ lookups' = [lookups EXCEPT ![slot] =
               [IdleLookup EXCEPT !.pc = "done", !.kind = type,
                   !.result = IF type = "time" THEN TimeObject ELSE ErrorObject]]
         /\ UNCHANGED cmCache

\* outcomes of an upstream call: data, no such city (weather), a failure (the
\* request is rejected), or a response whose body has none of the fields the
\* lookup reads
UpstreamOutcomes == {"ok", "notFound", "fail", "unusable"}

\* what the lookup builds from the response and passes to cacheManager.set
\* (NoValue: it returns an error object before).  fetchWeather and fetchNews
\* throw a TypeError on a body without `current` or `articles`;
\* fetchExchangeRates copies response.data.base and response.data.rates
\* whatever they are
FetchStored(kind, outcome, data) ==
    IF outcome = "ok" THEN data
    ELSE IF outcome = "unusable" /\ kind = "currency" THEN UnusableRates
    ELSE NoValue

\* the upstream call of the slot settles: the object built is cached with the
\* lookup's ttl and returned, otherwise an error object is returned
FetchSettle(slot, outcome, data) ==
    LET call == lookups[slot]
        stored == FetchStored(call.kind, outcome, data)
    IN
    /\ call.pc = "upstream"
    /\ outcome = "notFound" => call.kind = "weather"
    /\ IF stored # NoValue
       THEN /\ cmCache' = [cmCache EXCEPT
                              ![call.key] = CmSetEntry(stored, LookupTtl(call.kind), now)]
            /\ cmSetLog' = [cmSetLog EXCEPT
                               ![call.key] = [value |-> stored, at |-> now,
                                              ttl |-> LookupTtl(call.kind)]]
       ELSE UNCHANGED <<cmCache, cmSetLog>>
    /\ lookups' = [lookups EXCEPT ![slot] =
          [call EXCEPT !.pc = "done",
                       !.result = IF stored # NoValue THEN stored ELSE ErrorObject]]

\* server start: the module mode and the environment are fixed
Boot(strict, newsApiKey) ==
    /\ ~env.booted
    /\ env' = [booted |-> TRUE, strict |-> strict, newsApiKey |-> newsApiKey]
    /\ UNCHANGED <<now, cls, lookups, kindInUse, chat, gChat, limiterVars, cmVars, dcVars, mVars, reqVars, pdfVars, nbVars>>

\* fetchWeather(city), fetchNews() or fetchExchangeRates() called directly, as
\* the cron job and the tests do
DirectFetch(slot, kind, city) ==
    /\ env.booted
    /\ lookups[slot].pc # "upstream"
    /\ kindInUse \in {"none", kind}
    /\ kindInUse' = kind
    /\ FetchLiveDataStart(slot, kind, city)
    /\ UNCHANGED <<now, cls, env, chat, gChat, cmRet, cmSetLog, cmExpect, limiterVars, dcVars, mVars, reqVars, pdfVars, nbVars>>

DirectSettle(slot, outcome, data) ==
    /\ FetchSettle(slot, outcome, data)
    /\ UNCHANGED <<now, cls, env, kindInUse, chat, gChat, cmRet, cmExpect, limiterVars, dcVars, mVars, reqVars, pdfVars, nbVars>>

----------------------------------------------------------------------------
(* POST /chat *)

\* bounds of the chat runs: requests counted per hour, and the clock horizons
MaxChatRequests == 52
MaxChatTime == 3600000
MaxAdmissionTime == 120000
MaxLookupTime == 25200000

\* the lookup slot of the chat handler
ChatSlot == "c1"

\* lengths of the joined contents of the PDF chunks and of the knowledge-base
\* documents found for a message; 0: nothing found
PdfLengths == {0, 500}
RagLengths == {0, 180}

\* the lookups of a request
LookupNames == {"realtime", "pdf", "rag"}

\* started and failed are history: the lookups the handler has called so far,
\* and those of them that ended in an error
IdleChat ==
    [pc |-> "idle", msg |-> EmptyMessage, session |-> "", status |-> 0,
     intent |-> "none", cached |-> FALSE, started |-> {}, failed |-> {}]

ValidMessage_any(msg) == TRUE

\* !(!message || typeof message !== "string")
ValidMessage(msg) == msg.kind = "text"

\* liveData.cached || false
CachedFlag(liveData) == liveData.cached

\* sources.realtime = { success: true, content: JSON.stringify(liveData), ... }
RealtimeSource(det, liveData) ==
    [present |-> TRUE, success |-> TRUE, confidence |-> det.confidence,
     content |-> [from |-> "realtime", len |-> JsonLength(liveData)]]

\* sources.pdf, when userDocs.length > 0: confidence 0.9
PdfSource(len) ==
    IF len = 0 THEN AbsentSource
    ELSE [present |-> TRUE, success |-> TRUE, confidence |-> (9 * Scale) \div 10,
          content |-> [from |-> "pdf", len |-> len]]

\* sources.rag, when ragResults.length > 0: confidence 0.8
RagSource(len) ==
    IF len = 0 THEN AbsentSource
    ELSE [present |-> TRUE, success |-> TRUE, confidence |-> (8 * Scale) \div 10,
          content |-> [from |-> "rag", len |-> len]]

\* the sources object handed to the merger
Gather(realtime, pdfLen, ragLen) ==
    [n \in SourceNames |->
        CASE n = "realtime" -> realtime
          [] n = "pdf" -> PdfSource(pdfLen)
          [] n = "rag" -> RagSource(ragLen)
          [] OTHER -> AbsentSource]

\* history: the requests of the hour that began with the first one counted
CountRequest(g, t, cap) ==
    IF cap = 0 THEN g
    ELSE IF g.count = 0 \/ t - g.start > WindowMs THEN [count |-> 1, start |-> t]
    ELSE [g EXCEPT !.count = Min(g.count + 1, cap)]

\* the handler from the lookups to the call of the LLM: sources.realtime, the
\* PDF query, the knowledge-base query and the merge
\* queryPDFDocuments and queryVectorStore catch their own errors and return []
GatherAndMerge(req, det, live) ==
    \E pdfLen \in PdfLengths, ragLen \in RagLengths, caught \in SUBSET {"pdf", "rag"} :
    LET liveData == lookups'[ChatSlot].result
        sources == Gather(IF live THEN RealtimeSource(det, liveData) ELSE AbsentSource,
                          pdfLen, ragLen)
    IN  /\ "pdf" \in caught => pdfLen = 0
        /\ "rag" \in caught => ragLen = 0
        /\ mSources' = sources
        /\ mIntent' = det.intent
        /\ mOut' = MergeResponses(sources, det.intent)
        /\ mPc' = "merged"
        /\ mKeys' = (IF live THEN <<"realtime">> ELSE <<>>)
                     \o (IF pdfLen > 0 THEN <<"pdf">> ELSE <<>>)
                     \o (IF ragLen > 0 THEN <<"rag">> ELSE <<>>)
        /\ chat' = [req EXCEPT !.pc = "llm", !.intent = det.intent,
                               !.cached = live /\ CachedFlag(liveData),
                               !.started = (IF live THEN {"realtime"} ELSE {}) \cup {"pdf", "rag"},
                               !.failed = (IF live /\ liveData = ErrorObject
                                           THEN {"realtime"} ELSE {}) \cup caught]

\* the handler answers without reaching the merger
Respond(req, status) ==
    /\ chat' = [req EXCEPT !.pc = "responded", !.status = status]
    /\ mSources' = [n \in SourceNames |-> AbsentSource]
    /\ mIntent' = "general"
    /\ mOut' = EmptyMerged
    /\ mPc' = "input"
    /\ mKeys' = <<>>

\* a request arrives (authenticated, approved): validation, detectIntent and,
\* for a realtime intent, fetchLiveData up to its upstream call
ChatReceive(msg, session, cap) ==
    LET req == [IdleChat EXCEPT !.pc = "received", !.msg = msg, !.session = session]
        valid == ValidMessage(msg)
        throws == RuleBasedThrows(msg, env.strict)
        det == DetectIntent(msg)
        live == valid /\ ~throws /\ det.intent = "realtime"
    IN  /\ env.booted
        /\ chat.pc = "idle"
        /\ gChat' = CountRequest(gChat, now, cap)
        /\ IF live
           THEN FetchLiveDataStart(ChatSlot, det.type, ExtractCity(msg))
           ELSE /\ lookups' = [lookups EXCEPT ![ChatSlot] = IdleLookup]
                /\ UNCHANGED cmCache
        /\ IF ~valid THEN Respond(req, 400)
           ELSE IF throws THEN Respond(req, 500)
           ELSE IF lookups'[ChatSlot].pc = "upstream"
           THEN /\ chat' = [req EXCEPT !.pc = "upstream", !.intent = det.intent,
                                       !.started = {"realtime"}]
                /\ mSources' = [n \in SourceNames |-> AbsentSource]
                /\ mIntent' = det.intent
                /\ mOut' = EmptyMerged
                /\ mPc' = "input"
                /\ mKeys' = <<>>
           ELSE GatherAndMerge(req, det, live)
        /\ UNCHANGED <<now, cls, env, kindInUse, cmRet, cmSetLog, cmExpect, limiterVars, dcVars, reqVars, pdfVars, nbVars>>

ChatLiveSettle_abort(outcome, data) ==
    /\ chat.pc = "upstream"
    /\ FetchSettle(ChatSlot, outcome, data)
    /\ IF outcome = "ok"
       THEN GatherAndMerge(chat, DetectIntent(chat.msg), TRUE)
       ELSE Respond([chat EXCEPT !.failed = {"realtime"}], 500)
    /\ UNCHANGED <<now, cls, env, kindInUse, gChat, cmRet, cmExpect, limiterVars, dcVars, reqVars, pdfVars, nbVars>>

\* the upstream call of the request settles and the handler goes on to the LLM
ChatLiveSettle(outcome, data) ==
    /\ chat.pc = "upstream"
    /\ FetchSettle(ChatSlot, outcome, data)
    /\ GatherAndMerge(chat, DetectIntent(chat.msg), TRUE)
    /\ UNCHANGED <<now, cls, env, kindInUse, gChat, cmRet, cmExpect, limiterVars, dcVars, reqVars, pdfVars, nbVars>>

\* generateResponse and the query log settle: res.json, or next(error)
ChatFinish(ok) ==
    /\ chat.pc = "llm"
    /\ chat' = [chat EXCEPT !.pc = "responded", !.status = IF ok THEN 200 ELSE 500]
    /\ UNCHANGED <<now, cls, env, lookups, kindInUse, gChat, limiterVars, cmVars, dcVars, mVars, reqVars, pdfVars, nbVars>>

\* the handler has returned: its request, sources and merged result are gone
ChatClose ==
    /\ chat.pc = "responded"
    /\ chat' = IdleChat
    /\ lookups' = [lookups EXCEPT ![ChatSlot] = IdleLookup]
    /\ mSources' = [n \in SourceNames |-> AbsentSource]
    /\ mIntent' = "general"
    /\ mOut' = EmptyMerged
    /\ mPc' = "input"
    /\ mKeys' = <<>>
    /\ UNCHANGED <<now, cls, env, kindInUse, gChat, limiterVars, cmVars, dcVars, reqVars, pdfVars, nbVars>>

ChatInit ==
    /\ env = [booted |-> FALSE, strict |-> FALSE, newsApiKey |-> FALSE]
    /\ lookups = [s \in LookupSlots |-> IdleLookup]
    /\ kindInUse = "none"
    /\ chat = IdleChat
    /\ gChat = [count |-> 0, start |-> 0]
    /\ cls = NoCall

----------------------------------------------------------------------------
(* Private documents: pdfProcessor, queueProcessor, POST /pdf/upload *)

\* bounds of the exploration: documents uploaded in a run
MaxDocs == 2

\* processPDFForRAG: splitTextIntoChunks(extraction.text, 500, 50)
ChunkSize == 500

\* words whose occurrences in a chunk are counted
PdfTerms == {"ml", "key"}

\* the chunk lists of the uploaded documents; occ is the number of matches of
\* each word in the lower-cased text of the chunk
DocChunks ==
    {<<[len |-> ChunkSize, occ |-> [ml |-> 0, key |-> 0]]>>,
     <<[len |-> ChunkSize, occ |-> [ml |-> 1, key |-> 0]]>>,
     <<[len |-> ChunkSize, occ |-> [ml |-> 1, key |-> 0]],
       [len |-> ChunkSize, occ |-> [ml |-> 2, key |-> 1]]>>}

\* X-Session-ID values clients send, and the userId values of their tokens; a
\* client is free to send its user id as its session id
SessionIds == {"s1", "s2", "u1"}
UserIds == {"u1", "u2"}

\* query.toLowerCase().split(" "): the terms of the queries; "" comes from a
\* doubled space, "(" is not a regular expression
Queries == {<<"ml">>, <<"key", "ml">>, <<"zz">>, <<"ml", "">>, <<"(">>}

\* new RegExp(term, "g") throws
BadTerm(term) == term = "("

\* chunkLower.match(new RegExp(term, "g")): the number of matches; the empty
\* pattern matches at every position
Occurrences(chunk, term) ==
    IF term = "" THEN chunk.len + 1
    ELSE IF term \in PdfTerms THEN chunk.occ[term]
    ELSE 0

RECURSIVE ChunkScore(_, _)
\* queryTerms.forEach: score += matches ? matches.length : 0
ChunkScore(chunk, queryTerms) ==
    IF queryTerms = <<>> THEN 0
    ELSE Occurrences(chunk, Head(queryTerms)) + ChunkScore(chunk, Tail(queryTerms))

\* the results pushed for one document, in chunk order
DocResults(pdfDoc, queryTerms) ==
    LET all == [k \in 1..Len(pdfDoc.chunks) |->
                   [documentId |-> pdfDoc.documentId, chunkIndex |-> k - 1,
                    len |-> pdfDoc.chunks[k].len,
                    score |-> ChunkScore(pdfDoc.chunks[k], queryTerms)]]
        Scored(r) == r.score > 0
    IN  SelectSeq(all, Scored)

Owned_any(pdfDoc, sessionId) == TRUE

\* if (pdfDoc.sessionId !== sessionId) continue
Owned(pdfDoc, sessionId) == pdfDoc.sessionId = sessionId

RECURSIVE StoreResults(_, _, _)
\* the loop over pdfStore.entries(), in insertion order
StoreResults(store, queryTerms, sessionId) ==
    IF store = <<>> THEN <<>>
    ELSE (IF Owned(Head(store), sessionId) THEN DocResults(Head(store), queryTerms) ELSE <<>>)
         \o StoreResults(Tail(store), queryTerms, sessionId)

\* position of the first result with the highest score
FirstBest(results) ==
    CHOOSE i \in 1..Len(results) :
        /\ \A j \in 1..Len(results) : results[j].score <= results[i].score
        /\ \A j \in 1..(i - 1) : results[j].score < results[i].score

RECURSIVE SortByScore(_)
\* results.sort((a, b) => b.score - a.score): descending and stable
SortByScore(results) ==
    IF results = <<>> THEN <<>>
    ELSE LET i == FirstBest(results)
         IN  <<results[i]>> \o SortByScore(SubSeq(results, 1, i - 1)
                                           \o SubSeq(results, i + 1, Len(results)))

\* .slice(0, limit)
Slice(seq, limit) == SubSeq(seq, 1, Min(limit, Len(seq)))

\* queryPDFDocuments(query, sessionId, limit): the RegExp is built when a chunk
\* of an owned document is scored, and its SyntaxError is caught
QueryPDFDocuments(store, queryTerms, sessionId, limit) ==
    LET owned == SelectSeq(store, LAMBDA d : Owned(d, sessionId))
        throws == owned # <<>> /\ \E i \in 1..Len(queryTerms) : BadTerm(queryTerms[i])
    IN  IF throws THEN <<>>
        ELSE Slice(SortByScore(StoreResults(store, queryTerms, sessionId)), limit)

\* the document record processPDFForRAG stores; documentId (a uuid) is the
\* number of the document in the store
PdfDocument(store, sessionId, chunks) ==
    [documentId |-> Len(store) + 1, sessionId |-> sessionId, chunks |-> chunks]

NoPdfRet ==
    [op |-> "none", owner |-> "", session |-> "", queryTerms |-> <<>>, limit |-> 0,
     results |-> <<>>, listed |-> FALSE]

\* initializePDFQueue(): the Bull queue exists from now on
InitializePDFQueue ==
    /\ ~pdfQueue.on
    /\ pdfQueue' = [pdfQueue EXCEPT !.on = TRUE]
    /\ UNCHANGED <<now, pdfStore, pdfRet, limiterVars, cmVars, dcVars, mVars, chatVars, reqVars, nbVars>>

\* POST /pdf/upload with a valid file: queued when the queue exists, otherwise
\* processed at once; extractOk = FALSE: pdf-parse fails and the route answers 500
PdfUpload(sessionId, chunks, extractOk) ==
    /\ Len(pdfStore) + Len(pdfQueue.jobs) < MaxDocs
    /\ IF pdfQueue.on
       THEN /\ pdfQueue' = [pdfQueue EXCEPT
                               !.jobs = Append(@, [sessionId |-> sessionId, chunks |-> chunks])]
            /\ UNCHANGED pdfStore
       ELSE /\ pdfStore' = IF extractOk
                           THEN Append(pdfStore, PdfDocument(pdfStore, sessionId, chunks))
                           ELSE pdfStore
            /\ UNCHANGED pdfQueue
    /\ pdfRet' = [NoPdfRet EXCEPT !.op = "upload", !.session = sessionId]
    /\ UNCHANGED <<now, limiterVars, cmVars, dcVars, mVars, chatVars, reqVars, nbVars>>

\* pdfQueue.process: the oldest job runs processPDFForRAG; a job whose attempts
\* all fail stores nothing
PdfProcessJob(extractOk) ==
    /\ pdfQueue.jobs # <<>>
    /\ pdfQueue' = [pdfQueue EXCEPT !.jobs = Tail(@)]
    /\ pdfStore' = IF extractOk
                   THEN Append(pdfStore, PdfDocument(pdfStore, Head(pdfQueue.jobs).sessionId,
                                                     Head(pdfQueue.jobs).chunks))
                   ELSE pdfStore
    /\ UNCHANGED <<now, pdfRet, limiterVars, cmVars, dcVars, mVars, chatVars, reqVars, nbVars>>

\* queryPDFDocuments(query, sessionId, limit) called directly
PdfQuery(queryTerms, sessionId, limit) ==
    /\ pdfRet' = [NoPdfRet EXCEPT !.op = "query", !.owner = sessionId,
                                  !.queryTerms = queryTerms, !.limit = limit,
                                  !.results = QueryPDFDocuments(pdfStore, queryTerms,
                                                                sessionId, limit)]
    /\ UNCHANGED <<now, pdfStore, pdfQueue, limiterVars, cmVars, dcVars, mVars, chatVars, reqVars, nbVars>>

RECURSIVE JoinedLength(_)
\* userDocs.map((doc) => doc.content).join("\n").length
JoinedLength(results) ==
    IF results = <<>> THEN 0
    ELSE Head(results).len + (IF Len(results) > 1 THEN 1 ELSE 0) + JoinedLength(Tail(results))

\* chat.js: const userDocs = await queryPDFDocuments(message, userId, 5)
ChatUserDocs(queryTerms, userId) ==
    QueryPDFDocuments(pdfStore, queryTerms, userId, 5)

\* POST /chat of an authenticated client, from the private-document lookup to
\* the merge, for a message that is not a live-data one
ChatPdf(userId, sessionId, queryTerms, intent, ragLen) ==
    LET userDocs == ChatUserDocs(queryTerms, userId)
        sources == Gather(AbsentSource, JoinedLength(userDocs), ragLen)
        merged == MergeResponses(sources, intent)
    IN  /\ pdfRet' = [op |-> "chat", owner |-> userId, session |-> sessionId,
                      queryTerms |-> queryTerms, limit |-> 5, results |-> userDocs,
                      listed |-> \E i \in 1..Len(merged.usedSources) :
                                     merged.usedSources[i] = "pdf"]
        /\ UNCHANGED <<now, pdfStore, pdfQueue, limiterVars, cmVars, dcVars, mVars, chatVars, reqVars, nbVars>>

PdfInit ==
    /\ pdfStore = <<>>
    /\ pdfQueue = [on |-> FALSE, jobs |-> <<>>]
    /\ pdfRet = NoPdfRet

----------------------------------------------------------------------------
(* Specifications *)

vars == <<now, limiterVars, cmVars, dcVars, mVars, chatVars, reqVars, pdfVars, nbVars>>

Init ==
    /\ now = 0
    /\ LimiterInit
    /\ CmInit
    /\ DcInit
    /\ MergerInit
    /\ ChatInit
    /\ PdfInit
    /\ NbInit

LimiterNext ==
    \/ \E id \in Ids, type \in TypeNames : CheckLimit(id, type)
    \/ \E id \in Ids : IsBlocked(id)
    \/ \E cpu \in {50, 90}, mem \in {50, 90} : AdjustLimitsBasedOnLoad(cpu, mem)
    \/ Cleanup
    \/ LimiterTick

SpecLimiter == Init /\ [][LimiterNext]_vars

\* clock steps of the runs with requests in flight
InflightTick ==
    /\ Advance(WindowMs \div 2, MaxInflightTime)
    /\ UNCHANGED <<limiterVars, cmVars, dcVars, mVars, chatVars, reqVars, pdfVars, nbVars>>

InflightNext ==
    \/ \E c \in Callers : Arrive(c)
    \/ \E c \in Callers, id \in Ids : CallerCheck(c, id)
    \/ \E c \in Callers : Leave(c)
    \/ \E cpu \in {50, 90}, mem \in {50, 90} : AdjustLimitsBasedOnLoad(cpu, mem)
    \/ InflightTick

SpecInflight == Init /\ [][InflightNext]_vars

\* the messages that make no live-data lookup: their intent, and the length of
\* what the knowledge base finds for them
PdfChatCases == {[intent |-> "rag", ragLen |-> 180], [intent |-> "general", ragLen |-> 0]}

PdfNext ==
    \/ InitializePDFQueue
    \/ \E sid \in SessionIds, chunks \in DocChunks, ok \in BOOLEAN : PdfUpload(sid, chunks, ok)
    \/ \E ok \in BOOLEAN : PdfProcessJob(ok)
    \/ \E q \in Queries, sid \in SessionIds \cup UserIds, limit \in {1, 5} : PdfQuery(q, sid, limit)
    \/ \E q \in Queries, uid \in UserIds, sid \in SessionIds, c \in PdfChatCases :
          ChatPdf(uid, sid, q, c.intent, c.ragLen)

SpecPdf == Init /\ [][PdfNext]_vars

\* the texts classified: at most MaxTextLen pieces
MaxTextLen == 3
Texts == UNION {[1..n -> TextPieces] : n \in 0..MaxTextLen}

\* training examples, as TRAINING_DATA lists them: { text, intent }
Examples ==
    {[text |-> <<"weather">>, intent |-> "realtime"],
     [text |-> <<"hello", Blank, "weather">>, intent |-> "general"],
     [text |-> <<"explain">>, intent |-> "rag"],
     [text |-> <<"hello">>, intent |-> "general"]}

\* the training corpora: three of the examples, in every order
CorpusLen == 3
TrainingSets ==
    {data \in [1..CorpusLen -> Examples] : \A i, j \in 1..CorpusLen : data[i] = data[j] => i = j}

NbNext ==
    \/ \E data \in TrainingSets : NbTrain(data)
    \/ \E text \in Texts : NbExtractFeatures(text)
    \/ \E text \in Texts : NbPredict(text)
    \/ NbTaken

SpecNb == Init /\ [][NbNext]_vars

\* TTLs passed by the callers of the generic cache runs: the two default TTLs
CacheTtls == {CmDefaultTtl, DcDefaultTtl}

\* clock steps of the cache runs
CacheSteps == {CmDefaultTtl * 1000, DcDefaultTtl * 1000}

CacheTick ==
    /\ \E d \in CacheSteps : Advance(d, MaxTime)
    /\ UNCHANGED <<limiterVars, cmVars, dcVars, mVars, chatVars, reqVars, pdfVars, nbVars>>

\* keys used by the callers of the generic CacheManager runs
CmTestKeys == {"news_latest"}

CmNext ==
    \/ \E k \in CmTestKeys, v \in Payloads, ttl \in CacheTtls : CmSet(k, v, ttl)
    \/ \E k \in CmTestKeys : CmGet(k)
    \/ CmClear
    \/ CacheTick

SpecCm == Init /\ [][CmNext]_vars

DcNext ==
    \/ \E k \in DcKeys, ok \in BOOLEAN : DcGet(k, ok)
    \/ \E k \in DcKeys, v \in DcValues, ttl \in CacheTtls, ok \in BOOLEAN : DcSet(k, v, ttl, ok)
    \/ \E k \in DcKeys, ok \in BOOLEAN : DcDelete(k, ok)
    \/ \E ok \in BOOLEAN : DcClear(ok)
    \/ \E ok \in BOOLEAN : DcInitRedis(ok)
    \/ CacheTick

SpecDc == Init /\ [][DcNext]_vars

MergerNext ==
    \/ MergerCall
    \/ Merge

SpecMerger == Init /\ [][MergerNext]_vars

\* messages of the chat runs: the keyword profiles (weather for one city) with an
\* undecided classifier,
\* and the texts without a keyword with every classifier outcome
ChatMessages ==
    {EmptyMessage, NotAString, WeatherInParis}
    \cup {Text(p, ml, NoEntities) : p \in {q \in KeywordProfiles : q.rt = "weather" => q.city = "Paris"},
                                    ml \in {o \in MlOutcomes : o.mlTie}}
    \cup {Text(p, ml, NoEntities) : p \in {q \in KeywordProfiles : q.rtCount = 0 /\ q.city # "none"},
                                    ml \in MlOutcomes}

\* upstream data of the chat and lookup runs
UpstreamData == {[data |-> "d1", cached |-> FALSE]}

ChatTick ==
    /\ Advance(LookupTtl("weather") * 1000, MaxChatTime)
    /\ UNCHANGED <<limiterVars, cmVars, dcVars, mVars, chatVars, reqVars, pdfVars, nbVars>>

Next ==
    \/ \E strict \in BOOLEAN, key \in BOOLEAN : Boot(strict, key)
    \/ \E m \in ChatMessages, s \in Ids : ChatReceive(m, s, 0)
    \/ \E o \in UpstreamOutcomes, d \in UpstreamData : ChatLiveSettle(o, d)
    \/ \E ok \in BOOLEAN : ChatFinish(ok)
    \/ ChatClose
    \/ ChatTick

Spec == Init /\ [][Next]_vars

\* the chat runs in which every step of the handler itself is eventually taken;
\* whether an upstream ever answers is up to the upstream (the axios calls of
\* the lookups set no timeout)
SpecFair ==
    /\ Init /\ [][Next]_vars
    /\ WF_vars(\E ok \in BOOLEAN : ChatFinish(ok))
    /\ WF_vars(ChatClose)

\* the chat runs that count the requests of one session: one greeting, sent
\* again and again, 30 seconds apart or faster
AdmissionMessages ==
    {Text(p, ml, NoEntities) : p \in {q \in KeywordProfiles : q.generalCount = 1 /\ q.rtCount = 0},
                               ml \in {o \in MlOutcomes : o.mlTie}}

AdmissionTick ==
    /\ Advance(30 * 1000, MaxAdmissionTime)
    /\ UNCHANGED <<limiterVars, cmVars, dcVars, mVars, chatVars, reqVars, pdfVars, nbVars>>

AdmissionNext ==
    \/ \E strict \in BOOLEAN, key \in BOOLEAN : Boot(strict, key)
    \/ \E m \in AdmissionMessages, s \in Ids : ChatReceive(m, s, MaxChatRequests)
    \/ \E ok \in BOOLEAN : ChatFinish(ok)
    \/ ChatClose
    \/ AdmissionTick

SpecAdmission == Init /\ [][AdmissionNext]_vars

\* the lookup runs: two callers repeat one lookup
LookupCities == {"Paris"}

LookupTick ==
    /\ \E k \in LookupKinds : Advance(LookupTtl(k) * 1000, MaxLookupTime)
    /\ UNCHANGED <<limiterVars, cmVars, dcVars, mVars, chatVars, reqVars, pdfVars, nbVars>>

LookupNext ==
    \/ \E strict \in BOOLEAN, key \in BOOLEAN : Boot(strict, key)
    \/ \E s \in LookupSlots, k \in LookupKinds, c \in LookupCities : DirectFetch(s, k, c)
    \/ \E s \in LookupSlots, o \in UpstreamOutcomes, d \in UpstreamData : DirectSettle(s, o, d)
    \/ LookupTick

SpecLookup == Init /\ [][LookupNext]_vars

\* the classifier runs: detectIntent called on every message
IntentNext ==
    \/ \E strict \in BOOLEAN, key \in BOOLEAN : Boot(strict, key)
    \/ \E m \in Messages, mlThrows \in BOOLEAN : Classify(m, mlThrows)

SpecIntent == Init /\ [][IntentNext]_vars

----------------------------------------------------------------------------
(* Claims about the rate limiter *)

\* C1: for a scope with limit N and window W, the calls of one identity inside
\* one window are counted from the first call of the window; call number k is
\* allowed exactly when k <= N (so the first N are allowed and the next is
\* denied), and a call made more than W after the first call of the window is
\* allowed and starts a fresh window (window start = now, count restarted).
C1_WindowAdmission ==
    \A id \in Ids :
        (ret.op = "checkLimit" /\ ret.remaining # Unlimited
         /\ trackers[scopeInUse][id] # NoRecord)
        => /\ trackers[scopeInUse][id].firstRequest = gStart
           /\ trackers[scopeInUse][id].requests = gCalls
           /\ trackers[scopeInUse][id].dynamic = gLimit
           /\ ret.allowed <=> (gCalls <= gLimit)
           /\ gCalls = 1 => ret.allowed

\* a second window (started after the first one expired) in which N calls were
\* allowed and call N + 1 has just been denied, with the default session limit
C1_Witness ==
    /\ ret.op = "checkLimit"
    /\ ~ret.allowed
    /\ scopeInUse = "Session"
    /\ gLimit = SessionLimit
    /\ gCalls = gLimit + 1
    /\ gStart > WindowMs

----------------------------------------------------------------------------
(* Claims about the caches *)

\* C3 (CacheManager part): get(k) at the instant of set(k, v, ttl) returns v; a
\* get(k) made once the clock is past the ttl returns a miss and leaves no
\* entry for k in the store.
C3_CacheManagerRoundTrip ==
    cmRet.op = "get" =>
        /\ cmExpect = "immediate" => cmRet.value = cmSetLog[cmRet.key].value
        /\ cmExpect = "past" =>
              cmRet.value = NoValue /\ cmCache[cmRet.key] = NoEntry

\* C3 (DistributedCache local tier, the shared tier not connected): the same
\* round trip.
C3_LocalTierRoundTrip ==
    (dcRet.op = "get" /\ dcRedis # "connected" /\ dcStore[dcRet.key] = NoEntry) =>
        /\ dcExpect = "immediate" => dcRet.value = dcSetLog[dcRet.key].value
        /\ dcExpect = "past" =>
              dcRet.value = NoValue /\ dcLocal[dcRet.key] = NoEntry

\* C3: the cache round trip holds for the CacheManager and for the
\* DistributedCache local tier: get right after set returns the value, and past
\* the ttl get is a miss that has removed the entry.
C3_CacheRoundTrip == C3_CacheManagerRoundTrip /\ C3_LocalTierRoundTrip

----------------------------------------------------------------------------
(* Claims about the response merger *)

\* the priority orders as the specification states them
C4_Order(intent) ==
    IF intent = "realtime" THEN <<"realtime", "rag", "pdf">>
    ELSE IF intent = "rag" \/ intent = "pdf" THEN <<"pdf", "rag", "realtime">>
    ELSE <<"llm", "rag", "pdf", "realtime">>

C5_EmptyMerge ==
    (mPc = "merged" /\ \A n \in SourceNames : ~(mSources[n].present /\ mSources[n].success)) =>
        /\ mOut.primaryResponse = NoContent
        /\ mOut.sourceDetails = <<>>
        /\ mOut.usedSources = <<>>
        /\ mOut.confidenceScore = 0

\* a merge of one failed and otherwise absent sources
C5_Witness ==
    /\ mPc = "merged"
    /\ mSources["realtime"] = FailedSource
    /\ \A n \in SourceNames \ {"realtime"} : mSources[n] = AbsentSource
    /\ mOut.usedSources = <<>>

----------------------------------------------------------------------------
(* Claims about the chat route and the live-data lookups *)

\* C2: the 51st chat request of one session inside one hour (session limit 50)
\* is denied and the session is blocklisted; a 52nd request 30 seconds later
\* is denied by the blocklist check and the window counter stays at 51.
C2_FiftyFirstDenied ==
    (chat.pc = "responded" /\ gChat.count > SessionLimit) =>
        /\ chat.status = 429
        /\ blocklist[chat.session] # Null
        /\ trackers["Session"][chat.session] # NoRecord
        /\ trackers["Session"][chat.session].requests = SessionLimit + 1

\* C6: whenever the chat route hands the merger sources of which at least one
\* has success = true, the merged result has a non-empty primary content and an
\* overall confidence greater than 0.
C6_SuccessGivesPrimary ==
    (/\ mPc = "merged"
     /\ chat.pc \in {"llm", "responded"}
     /\ \E n \in SourceNames : mSources[n].present /\ mSources[n].success) =>
        /\ mOut.primaryResponse.from # "none"
        /\ mOut.primaryResponse.len > 0
        /\ mOut.confidenceScore > 0

\* a realtime request with one keyword match and no entities (the lowest
\* confidence the route gives live data), answered from live data alone
C6_Witness ==
    /\ mPc = "merged"
    /\ chat.pc = "responded" /\ chat.status = 200
    /\ chat.intent = "realtime" /\ chat.msg.rtCount = 1
    /\ mSources["realtime"].success
    /\ ~mSources["pdf"].present /\ ~mSources["rag"].present
    /\ mOut.usedSources = <<"realtime">>

C8_Ttl(kind) ==
    CASE kind = "weather" -> 1800
      [] kind = "news" -> 3600
      [] kind = "currency" -> 21600

\* C8: once a weather, news or currency fetch has succeeded, a repeat of the
\* lookup made no later than the source's TTL (1800 s, 3600 s, 21600 s) after
\* the last successful fetch is answered from the cache without an upstream
\* call, and a repeat made later than that calls the upstream.
C8_RepeatWithinTtl ==
    \A s \in LookupSlots :
        (/\ lookups[s].pc # "idle"
         /\ lookups[s].kind \in LookupKinds
         /\ lookups[s].sinceFetch # Null) =>
            IF lookups[s].sinceFetch <= C8_Ttl(lookups[s].kind) * 1000
            THEN lookups[s].hit /\ ~lookups[s].upstream
            ELSE ~lookups[s].hit /\ lookups[s].upstream

\* a currency lookup exactly 21600 s after the fetch is a hit, and the next one,
\* later still, calls the upstream
C8_Witness ==
    /\ lookups["c1"].kind = "currency"
    /\ lookups["c1"].sinceFetch = 21600 * 1000
    /\ lookups["c1"].hit
    /\ lookups["c2"].kind = "currency"
    /\ lookups["c2"].sinceFetch > 21600 * 1000
    /\ lookups["c2"].upstream

C10_FailedLookupNotSuccess ==
    (/\ chat.pc \in {"llm", "responded"}
     /\ lookups[ChatSlot].pc = "done"
     /\ lookups[ChatSlot].result = ErrorObject) =>
        /\ mSources["realtime"].present
        /\ ~mSources["realtime"].success
        /\ mOut.primaryResponse.from # "realtime"
        /\ \A i \in 1..Len(mOut.usedSources) : mOut.usedSources[i] # "realtime"

\* C11: whichever of the lookups of a request fail (live data, private
\* documents, knowledge base), the other lookups are still made, the request
\* reaches the merge step, and its reply can still be sent: a failed lookup
\* alone never turns the request into an error.
C11_FailuresDoNotAbort ==
    (chat.pc \in {"llm", "responded"} /\ chat.failed # {}) =>
        /\ mPc = "merged"
        /\ {"pdf", "rag"} \subseteq chat.started
        /\ chat.intent = "realtime" => "realtime" \in chat.started
        /\ chat.pc = "llm" => ENABLED ChatFinish(TRUE)

\* all three lookups of a request failed and the request was answered 200
C11_Witness ==
    /\ chat.pc = "responded"
    /\ chat.status = 200
    /\ chat.failed = LookupNames
    /\ lookups[ChatSlot].upstream

C13_Listed(sources, order) ==
    LET Won(n) == sources[n].present /\ sources[n].success
    IN  SelectSeq(order, Won)

\* C13: for a fixed intent and fixed outcomes of the sources, the primary
\* source and the order of the attribution list are those of the intent's
\* priority order, whatever the order in which the lookups completed (the
\* order in which the sources were assigned).
C13_CompletionOrderIrrelevant ==
    mPc = "merged" =>
        /\ mOut.usedSources = C13_Listed(mSources, PriorityOrder(mIntent))
        /\ Len(mOut.sourceDetails) = Len(mOut.usedSources)
        /\ \A i \in 1..Len(mOut.usedSources) :
              mOut.sourceDetails[i].source = mOut.usedSources[i]
        /\ mOut.usedSources # <<>> =>
              mOut.primaryResponse = mSources[mOut.usedSources[1]].content

\* live-data intent, all three lookups succeeded, live data settled last
C13_Witness ==
    /\ mPc = "merged"
    /\ mIntent = "realtime"
    /\ mKeys = <<"pdf", "rag", "realtime">>
    /\ \A n \in {"pdf", "rag", "realtime"} : mSources[n].success
    /\ mOut.usedSources = <<"realtime", "rag", "pdf">>

C15_ClassifierNeverRaises ==
    cls.done =>
        /\ ~cls.raised
        /\ cls.result.method \in {"ml", "rule-based"}
        /\ cls.mlThrew =>
              cls.result = Fuse([DetectIntentRuleBased(cls.msg) EXCEPT !.error = TRUE], cls.entity)

\* C16: classifying the empty message yields general with confidence 0.
C16_EmptyIsGeneralZero ==
    (cls.done /\ cls.msg = EmptyMessage /\ ~cls.mlThrew) =>
        /\ cls.result.intent = "general"
        /\ cls.result.confidence = 0

\* C17: "What's the weather in Paris?" is decided by the rule-based path as
\* realtime of type weather; its lookup misses the cache, calls the weather
\* upstream and stores the data for 1800 s, and realtime is the primary source.
C17_WeatherInParis ==
    (chat.msg = WeatherInParis /\ chat.pc \in {"llm", "responded"}) =>
        /\ mPc = "merged"
        /\ chat.intent = "realtime"
        /\ DetectIntent(chat.msg).method = "rule-based"
        /\ lookups[ChatSlot].kind = "weather"
        /\ lookups[ChatSlot].hit \/ lookups[ChatSlot].upstream
        /\ (lookups[ChatSlot].upstream /\ lookups[ChatSlot].result # ErrorObject) =>
              cmCache["weather_paris"] =
                  CmSetEntry(lookups[ChatSlot].result, 1800, cmSetLog["weather_paris"].at)
        /\ mOut.usedSources # <<>>
        /\ mOut.usedSources[1] = "realtime"

\* C18: the statistical confidence, the rule-based confidence and the entity
\* score are each in [0,1], and so is the fused confidence 0.7 x confidence +
\* 0.3 x entity score, also when the count bonus and the three flat entity
\* bonuses all apply.
C18_ConfidencesInUnitInterval ==
    (cls.done /\ ~cls.raised) =>
        /\ cls.ml \in 0..Scale
        /\ cls.rule \in 0..Scale
        /\ cls.entity \in 0..Scale
        /\ cls.result.confidence \in 0..Scale

C18_Witness ==
    /\ cls.done /\ ~cls.raised /\ ~cls.mlThrew
    /\ cls.msg.entities.numbers >= 6
    /\ cls.msg.entities.locations > 0 /\ cls.msg.entities.dates > 0
    /\ cls.msg.entities.currencies > 0
    /\ cls.ml = Scale /\ cls.result.method = "ml"
    /\ cls.entity = (95 * Scale) \div 100
    /\ cls.result.confidence = (7 * Scale + 3 * cls.entity) \div 10

----------------------------------------------------------------------------
(* Claims about the two-tier cache under shared-tier failures *)

\* C19: set(k, v, ttl) always writes the local tier with expiry now + ttl,
\* whether the shared tier is absent, succeeds or fails during the call; so a
\* get(k) made before the ttl has passed, while the shared tier is unavailable
\* or failing, returns v from the local tier.
C19_SetAlwaysWritesLocal ==
    /\ dcRet.op = "set" =>
          dcLocal[dcRet.key] = DcSetEntry(dcSetLog[dcRet.key].value,
                                          dcSetLog[dcRet.key].ttl, dcSetLog[dcRet.key].at)
    /\ (/\ dcRet.op = "get"
        /\ dcExpect \in {"immediate", "fresh"}
        /\ dcRedis # "connected" \/ dcRet.threw) =>
          dcRet.value = dcSetLog[dcRet.key].value

\* C20: after delete(k) returns, get(k) is a miss until the next set(k), and
\* after clear() returns every get is a miss until the next set, in both tiers,
\* also when the shared-tier call of the delete or clear fails.
C20_DeleteAndClearRemove ==
    /\ dcRet.op = "delete" =>
          dcLocal[dcRet.key] = NoEntry /\ dcStore[dcRet.key] = NoEntry
    /\ dcRet.op = "clear" =>
          \A k \in DcKeys : dcLocal[k] = NoEntry /\ dcStore[k] = NoEntry
    /\ (dcRet.op = "get" /\ dcExpect = "unset") => dcRet.value = NoValue

----------------------------------------------------------------------------
(* Claims about the blocklist, the limits and the sweep of the rate limiter *)

\* C22: isBlocked(id) returns true exactly when a blocklist entry for id exists
\* and now < its unblock instant (so not at now = unblock instant), and a lookup
\* that finds an entry whose unblock instant has passed deletes it.
C22_BlockedUntilUnblockInstant ==
    [][\A id \in Ids :
         (ret'.op = "isBlocked" /\ ret' # ret) =>
            /\ (~ret'.allowed) <=> (blocklist[id] # Null /\ now < blocklist[id])
            /\ (blocklist[id] # Null /\ blocklist[id] < now) => blocklist'[id] = Null]_vars

\* C23: every denied checkLimit call puts the identity on the blocklist for 5
\* minutes and returns a retry-after of 300 seconds; every allowed call adds no
\* blocklist entry and returns no retry-after.
C23_DenialBlocksFiveMinutes ==
    [][\A s \in Scopes, id \in Ids :
         (trackers'[s][id] # trackers[s][id] /\ trackers'[s][id] # NoRecord) =>
            /\ ret'.op = "checkLimit"
            /\ ~ret'.allowed =>
                  blocklist'[id] = now + 5 * 60 * 1000 /\ ret'.retryAfter = 300
            /\ ret'.allowed =>
                  blocklist'[id] = blocklist[id] /\ ret'.retryAfter = Null]_vars

C23_Witness ==
    /\ ret.op = "checkLimit" /\ ~ret.allowed /\ ret.retryAfter = 300
    /\ blocklist["id1"] = now + 5 * 60 * 1000
    /\ trackers[scopeInUse]["id1"].requests = trackers[scopeInUse]["id1"].dynamic + 1

\* C24: isBlocked changes no rate-window record: count, window start and
\* effective limit of every record of every scope are the same after the call,
\* for a blocked and for an unblocked identity.
C24_IsBlockedLeavesWindows ==
    [][(ret'.op = "isBlocked" /\ ret' # ret) => trackers' = trackers]_vars

C24_Witness ==
    /\ ret.op = "isBlocked" /\ ~ret.allowed
    /\ scopeInUse # "none"
    /\ trackers[scopeInUse]["id1"].requests = gCalls
    /\ gCalls = gLimit + 1

\* C25: adjustLimitsBasedOnLoad changes no existing window record; a record
\* keeps its effective limit for as long as its window lasts, and a window that
\* starts after an adjustment takes the limit in force at its start.
C25_AdjustmentSparesOpenWindows ==
    [][/\ limits' # limits => trackers' = trackers
       /\ \A s \in Scopes, id \in Ids :
            LET old == trackers[s][id]
                new == trackers'[s][id]
            IN  new # NoRecord =>
                  IF old # NoRecord /\ old.firstRequest = new.firstRequest
                  THEN new.dynamic = old.dynamic
                  ELSE new.dynamic = limits[s] /\ new.firstRequest = now]_vars

C25_Witness ==
    /\ ret.op = "checkLimit" /\ ret.allowed
    /\ limits["Session"] = 25
    /\ trackers["Session"]["id1"].dynamic = 50
    /\ trackers["Session"]["id1"].requests > 25

\* C26: after a cleanup sweep no expired window record is left in any scope
\* (session, user, IP) and no blocklist entry whose unblock instant has passed;
\* unexpired records and entries are kept.
C26_SweepPurgesEveryScope ==
    [][(ret'.op = "cleanup" /\ ret.op # "cleanup") =>
         /\ \A s \in Scopes, id \in Ids :
              IF trackers[s][id] # NoRecord /\ now - trackers[s][id].firstRequest > WindowMs
              THEN trackers'[s][id] = NoRecord
              ELSE trackers'[s][id] = trackers[s][id]
         /\ \A id \in Ids :
              IF blocklist[id] # Null /\ blocklist[id] < now
              THEN blocklist'[id] = Null
              ELSE blocklist'[id] = blocklist[id]]_vars

\* C27: checkLimit with a scope name that has no tracker or no limit returns
\* allowed with unlimited remaining and changes no tracker record and no
\* blocklist entry.
C27_UnknownScopeAllows ==
    [][(ret'.op = "checkLimit" /\ ret'.scope \notin Scopes /\ ret' # ret) =>
         /\ ret'.allowed
         /\ ret'.remaining = Unlimited
         /\ trackers' = trackers
         /\ blocklist' = blocklist]_vars

C27_Witness ==
    /\ ret.op = "checkLimit" /\ ret.scope = "Ip"
    /\ ret.allowed /\ ret.remaining = Unlimited
    /\ scopeInUse = "IP"
    /\ trackers["IP"]["id1"].requests > 0

\* C28: when several requests in flight call checkLimit for one identity and
\* scope within a window, in every interleaving the record's count is the number
\* of calls made and exactly min(calls, effective limit) of them were allowed.
C28_NoLostIncrement ==
    \A id \in Ids :
        gCalls > 0 =>
            /\ trackers["Session"][id].requests = gCalls
            /\ inflight.allowedCalls = Min(gCalls, trackers["Session"][id].dynamic)

C28_Witness ==
    /\ inflight.pcs["r1"] = "denied" /\ inflight.pcs["r2"] = "allowed"
    /\ gCalls = gLimit + 1
    /\ inflight.allowedCalls = gLimit

----------------------------------------------------------------------------
(* Claims about the private documents *)

\* C29: for every store holding documents of several owners,
\* queryPDFDocuments(query, owner, limit) returns only chunks of documents stored
\* under exactly that owner identity.
C29_OwnerIsolation ==
    pdfRet.op \in {"query", "chat"} =>
        \A i \in 1..Len(pdfRet.results) :
            /\ pdfRet.results[i].documentId \in 1..Len(pdfStore)
            /\ pdfStore[pdfRet.results[i].documentId].sessionId = pdfRet.owner

C29_Witness ==
    /\ pdfRet.op = "query"
    /\ pdfRet.results # <<>>
    /\ \E i \in 1..Len(pdfStore) :
          /\ pdfStore[i].sessionId # pdfRet.owner
          /\ DocResults(pdfStore[i], pdfRet.queryTerms) # <<>>

\* C30: after a caller has uploaded a document, a later chat request of that
\* caller whose query has a term occurring in the document finds it: the
\* private-document source succeeds and is listed among the sources.
C30_UploadedIsSearched ==
    [][(/\ pdfRet'.op = "chat" /\ pdfRet' # pdfRet
        /\ \A k \in 1..Len(pdfRet'.queryTerms) : ~BadTerm(pdfRet'.queryTerms[k])
        /\ \E i \in 1..Len(pdfStore) :
              /\ pdfStore[i].sessionId = pdfRet'.session
              /\ DocResults(pdfStore[i], pdfRet'.queryTerms) # <<>>) =>
         /\ pdfRet'.results # <<>>
         /\ pdfRet'.listed]_vars

----------------------------------------------------------------------------
(* Claims about the statistical classifier *)

\* the words of a text, counted on the text itself: a word starts at every
\* piece that is neither blank nor punctuation and is not preceded, across
\* punctuation, by another such piece
WordStarts(text) ==
    {i \in 1..Len(text) :
        /\ text[i] \notin {Blank, Punct}
        /\ \A j \in 1..(i - 1) :
              text[j] \notin {Blank, Punct} => \E k \in (j + 1)..(i - 1) : text[k] = Blank}

C36_TwoConfidences ==
    (nbRet.op = "predict" /\ ~nbRet.threw) =>
        LET all == {nbRet.scores[c] : c \in DOMAIN nbRet.scores}
            tie == \A s, o \in all : s.nan = o.nan /\ s.num * o.den = o.num * s.den
        IN  /\ nbRet.confidence = IF tie THEN Scale \div 2 ELSE Scale
            /\ (nbRet.confidence # NotANumber /\ nbRet.confidence < (6 * Scale) \div 10) => tie

\* C37: after training, every feature probability of every label is (count of
\* the feature in the label's examples + 1) / (number of features of the label
\* + size of the vocabulary of the whole corpus), in whatever order the labels
\* were processed.
C37_SmoothedAgainstGlobalVocabulary ==
    nbRet.op = "train" =>
        \A c \in DOMAIN nbModel.classWordProb :
            LET features == ExtractFeatures(JoinTexts(nbRet.data, c)) IN
            \A f \in DOMAIN nbModel.classWordProb[c] :
                nbModel.classWordProb[c][f].num * (Len(features) + Cardinality(nbModel.vocabulary))
                    = (FeatureFreq(features, f) + 1) * nbModel.classWordProb[c][f].den

----------------------------------------------------------------------------
(* Claims about the rule-based path and the fusion of the two classifiers *)

\* C31: in the rule-based path a category wins only when its keyword-match
\* count is greater than 0 and strictly greater than the counts of the two
\* other categories; when two categories tie for the maximum, or all counts are
\* 0, the result is general.
C31_StrictMaximumWins ==
    (cls.done /\ ~cls.raised) =>
        LET m == cls.msg
            strictMax(a, b, c) == a > 0 /\ a > b /\ a > c
        IN  /\ cls.ruleBased.intent = "realtime" =>
                  strictMax(m.rtCount, m.ragCount, m.generalCount)
            /\ cls.ruleBased.intent = "rag" =>
                  strictMax(m.ragCount, m.rtCount, m.generalCount)
            /\ (/\ ~strictMax(m.rtCount, m.ragCount, m.generalCount)
                /\ ~strictMax(m.ragCount, m.rtCount, m.generalCount)) =>
                  cls.ruleBased.intent = "general"

\* C32: when the statistical confidence is at least 0.6, predictIntentML
\* returns the statistical intent and confidence with method ml; otherwise it
\* returns the rule-based intent and confidence with method rule-based, and
\* the statistical confidence is reported in the result.
C32_Fusion ==
    (cls.done /\ ~cls.raised /\ ~cls.mlThrew) =>
        IF cls.ml # NotANumber /\ cls.ml >= (6 * Scale) \div 10
        THEN /\ cls.predicted.method = "ml"
             /\ cls.predicted.intent = cls.msg.mlIntent
             /\ cls.predicted.confidence = cls.ml
        ELSE /\ cls.predicted.method = "rule-based"
             /\ cls.predicted.intent = cls.ruleBased.intent
             /\ cls.predicted.confidence = cls.ruleBased.confidence
             /\ cls.predicted.mlConfidence = cls.ml
             /\ cls.result.mlConfidence = cls.ml

\* C35: whenever detectIntent returns the intent realtime, it returns a type
\* among weather, news, currency and time with it, on the statistical path as
\* on the rule-based path.
C35_RealtimeHasSubtype ==
    (cls.done /\ ~cls.raised /\ cls.result.intent = "realtime") =>
        cls.result.type \in {"weather", "news", "currency", "time"}

----------------------------------------------------------------------------
(* Claims about an exceeded window and the adjusted limits *)

C38_LastCallDecides ==
    /\ limits["IP"] = 500
    /\ \A cpu \in {50, 80, 81}, mem \in {50, 85, 86} :
          LET after == AdjustedLimits(limits, cpu, mem) IN
          /\ after = IF cpu > 80 \/ mem > 85
                     THEN [s \in Scopes |->
                              CASE s = "Session" -> 25 [] s = "User" -> 50 [] s = "IP" -> 500]
                     ELSE [s \in Scopes |->
                              CASE s = "Session" -> 50 [] s = "User" -> 100 [] s = "IP" -> 500]
          /\ \A cpu2 \in {50, 80, 81}, mem2 \in {50, 85, 86} :
                AdjustedLimits(after, cpu2, mem2) = AdjustedLimits(limits, cpu2, mem2)

\* the limits are back at 50 and 100 while a window opened under high load,
\* with limit 25, is still tracked
C38_Witness ==
    /\ limits["Session"] = 50 /\ limits["User"] = 100
    /\ \E id \in Ids : trackers["Session"][id].dynamic = 25

----------------------------------------------------------------------------
(* Claims about the lists of the merger result *)

\* the priority list of an intent
C39_Order(intent) ==
    IF intent = "realtime" THEN <<"realtime", "rag", "pdf", "llm">>
    ELSE IF intent = "rag" \/ intent = "pdf" THEN <<"pdf", "rag", "realtime", "llm">>
    ELSE <<"llm", "rag", "pdf", "realtime">>

----------------------------------------------------------------------------
(* Claims about failed live-data lookups and the cache *)

\* C40: when the upstream call of a weather, news or currency lookup fails or
\* returns no usable result, the lookup writes nothing to the cache: the cache
\* is as it was before the call settled, no entry holds an error or an unusable
\* object, and so no later lookup is answered with one from the cache.
C40_FailureNotCached ==
    [][\A slot \in LookupSlots :
          (/\ lookups[slot].pc = "upstream"
           /\ lookups'[slot].pc = "done"
           /\ lookups'[slot].result \in {ErrorObject, UnusableRates}) =>
              /\ cmCache' = cmCache
              /\ lookups'[slot].result = ErrorObject
              /\ \A k \in DOMAIN cmCache' :
                    cmCache'[k].value \notin {ErrorObject, UnusableRates}]_vars

====
